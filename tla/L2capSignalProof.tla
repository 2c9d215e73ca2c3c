-------------------------- MODULE L2capSignalProof --------------------------
(***************************************************************************)
(* Channel numbers and answers of L2capSignal, for any number of links,    *)
(* entries and channel numbers, and for all peers.                         *)
(*                                                                         *)
(* ChannelIdsDistinct is not inductive: that a number drawn is a new one   *)
(* follows from the order in which entries leave the pool.  No entry comes *)
(* back, so the pool is the end of the array and the e-th entry has the    *)
(* e-th number; numbers drawn after the pool is empty are given to nobody. *)
(*                                                                         *)
(* AnswersMatch is inductive once the queues have their types, but it says *)
(* what a recursive definition makes of two queues: the second half of the *)
(* module shows what Exchanges does to queues put behind each other, by    *)
(* induction over their length, and then that each step keeps the          *)
(* equation.  The induction is over a set, SetInduction.                   *)
(*                                                                         *)
(* The last part is about the channels: the lists of the pool, which       *)
(* implement ChannelPool, and the channels the peers were promised.        *)
(***************************************************************************)
EXTENDS L2capSignal, SequenceTheorems, WellFoundedInduction, TLAPS

N == L2CAP_CONN_POOL_SIZE

\* The entries in use: all of them, or those before the head of the pool.
Taken(e) == heap.head[l2cap_empty_pool] = NULL \/ e < heap.head[l2cap_empty_pool]

PoolInOrder ==
    /\ \A e \in Entry : ~Taken(e) => heap.next[e] = IF e = N THEN NULL ELSE e + 1
    /\ \A e \in Entry : Taken(e) <=> chan[e].connect_initiate # ""
    /\ \A e \in Entry : Taken(e) => chan[e].cid = MIN_L2CAP_CID + e
    /\ heap.head[l2cap_empty_pool] # NULL =>
          l2cap_cur_cid = MIN_L2CAP_CID + heap.head[l2cap_empty_pool] - 1

\* The numbers of the channels the device has asked for.
Ours == {chan[e].cid : e \in {d \in Entry : chan[d].connect_initiate = "LOCAL"}}

AskedFor(q, code) == \A i \in 1..Len(q) : q[i].code = code => q[i].scid \in Ours

QueuesOurs == \A s \in Slot : /\ AskedFor(toPeer[s], "ConnReq")
                            /\ AskedFor(toDev[s], "ConnRsp")

TmpOurs == tmp_chid # 0 => tmp_chid \in Ours

RequestsOurs == QueuesOurs /\ TmpOurs

\* The inductive invariant.
IInv == TypeOK /\ PoolInOrder /\ RequestsOurs

-----------------------------------------------------------------------------
(* Messages and queues                                                       *)

LEMMA Fields ==
    ASSUME NEW m \in Message
    PROVE  /\ m.code \in {"ConnReq", "ConnRsp", "DiscReq", "DiscRsp"} => m.id \in Nat /\ m.scid \in Nat
           /\ m.code \in {"ConnRsp", "DiscReq", "DiscRsp"} => m.dcid \in Nat
           /\ m.code = "ConnRsp" => m.result \in {"success", "pending", "refused"}
           /\ m.code = "ConfReq" => m.id \in Nat /\ m.dcid \in Nat /\ m.opt \in Options
           /\ m.code = "ConfRsp" =>
                 /\ m.id \in Nat /\ m.scid \in Nat /\ m.opt \in Options
                 /\ m.result \in {"success", "unacceptable", "rejected"}
           /\ m.code \in {"EchoReq", "EchoRsp", "InfoReq", "InfoRsp", "Reject"} => m.id \in Nat
           /\ m.code = "SABM" => m.dcid \in Nat
BY DEF Message

LEMMA Constructed ==
    ASSUME NEW id \in Nat, NEW scid \in Nat, NEW dcid \in Nat, NEW opt \in Options
    PROVE  /\ ConnReq(id, scid) \in Message
           /\ \A result \in {"success", "pending", "refused"} :
                 ConnRsp(id, dcid, scid, result) \in Message
           /\ ConfReq(id, dcid, opt) \in Message
           /\ \A result \in {"success", "unacceptable", "rejected"} :
                 ConfRsp(id, scid, result, opt) \in Message
           /\ DiscReq(id, dcid, scid) \in Message
           /\ DiscRsp(id, dcid, scid) \in Message
           /\ \A code \in {"EchoReq", "EchoRsp", "InfoReq", "InfoRsp", "Reject"} :
                 Bare(code, id) \in Message
           /\ Sabm(dcid) \in Message
BY DEF Message, ConnReq, ConnRsp, ConfReq, ConfRsp, DiscReq, DiscRsp, Bare, Sabm

LEMMA OptionTypes ==
    /\ NoOptions \in Options /\ OurOptions \in Options
    /\ \A opt \in Options : Hints(opt) \in Options
    /\ \A old, opt \in Options : get_options(old, opt) \in Options
<1>1. NoOptions \in Options /\ OurOptions \in Options
  BY DEF NoOptions, OurOptions, Options, OptionValue
<1>2. ASSUME NEW opt \in Options PROVE Hints(opt) \in Options
  BY DEF Hints, Options, OptionValue
<1>3. ASSUME NEW old \in Options, NEW opt \in Options PROVE get_options(old, opt) \in Options
  BY DEF get_options, Options, OptionValue
<1>. QED  BY <1>1, <1>2, <1>3

\* A queue after its head was taken and others were put behind it.
LEMMA TailThenMore ==
    ASSUME NEW S, NEW q \in Seq(S), NEW msgs \in Seq(S), q # <<>>
    PROVE  /\ Head(q) \in S /\ Tail(q) \in Seq(S) /\ q \o msgs \in Seq(S)
           /\ Len(q) \in Nat /\ Len(q) >= 1 /\ q[1] = Head(q)
           /\ Len(Tail(q)) = Len(q) - 1
           /\ \A i \in 1..Len(Tail(q)) : Tail(q)[i] = q[i + 1]
<1>. QED  BY HeadTailProperties, ConcatProperties

LEMMA AskedForTail ==
    ASSUME NEW q \in Seq(Message), q # <<>>, NEW code, AskedFor(q, code)
    PROVE  AskedFor(Tail(q), code)
<1>1. \A i \in 1..Len(Tail(q)) : Tail(q)[i] = q[i + 1] /\ i + 1 \in 1..Len(q)
  BY TailThenMore, EmptySeq
<1>. QED  BY <1>1 DEF AskedFor

LEMMA AskedForMore ==
    ASSUME NEW q \in Seq(Message), NEW msgs \in Seq(Message), NEW code,
           AskedFor(q, code), AskedFor(msgs, code)
    PROVE  AskedFor(q \o msgs, code)
<1>1. /\ Len(q \o msgs) = Len(q) + Len(msgs) /\ Len(q) \in Nat /\ Len(msgs) \in Nat
      /\ \A i \in 1..Len(q) + Len(msgs) :
            (q \o msgs)[i] = IF i <= Len(q) THEN q[i] ELSE msgs[i - Len(q)]
  BY ConcatProperties, LenProperties
<1>2. ASSUME NEW i \in 1..Len(q \o msgs), (q \o msgs)[i].code = code
      PROVE  (q \o msgs)[i].scid \in Ours
  <2>1. CASE i <= Len(q)
    BY <1>1, <1>2, <2>1 DEF AskedFor
  <2>2. CASE ~(i <= Len(q))
    <3>1. i - Len(q) \in 1..Len(msgs)
      BY <1>1, <2>2
    <3>. QED  BY <1>1, <1>2, <2>2, <3>1 DEF AskedFor
  <2>. QED  BY <2>1, <2>2
<1>. QED  BY <1>2 DEF AskedFor

-----------------------------------------------------------------------------
(* What the steps have in common                                             *)

\* What the device already asked for is still asked for.
Kept == Ours \subseteq Ours'

QueueTypes == /\ toPeer \in [Slot -> Seq(Message)] /\ toDev \in [Slot -> Seq(Message)]
PeerTypes == /\ up \in [Slot -> BOOLEAN]
             /\ peer \in [Slot -> SUBSET PeerChannel]
             /\ pend \in [Slot -> Seq(Request \X Nat)]
             /\ left \in [{"links", "requests"} -> Nat]
DeviceTypes == /\ heap \in Heap /\ chan \in [Entry -> Channel]
               /\ l2cap_cur_cid \in MIN_L2CAP_CID..MAX_L2CAP_CID
               /\ l2cap_sig_id \in 0..(SIG_ID_SIZE - 1)
               /\ tmp_chid \in 0..MAX_L2CAP_CID

LEMMA TypeParts == TypeOK <=> DeviceTypes /\ QueueTypes /\ PeerTypes
BY DEF TypeOK, DeviceTypes, QueueTypes, PeerTypes

\* New queues that contain no wrong number, and what is ours stays ours.
LEMMA QueuesStay ==
    ASSUME Kept,
           \A s \in Slot : AskedFor(toPeer'[s], "ConnReq") /\ AskedFor(toDev'[s], "ConnRsp")
    PROVE  QueuesOurs'
BY DEF Kept, QueuesOurs, AskedFor

LEMMA AnswerStays ==
    ASSUME IInv, Kept, NEW s \in Slot, NEW codes, Incoming(s, codes),
           NEW msgs \in Seq(Message), \A i \in 1..Len(msgs) : msgs[i].code # "ConnReq",
           Answer(s, msgs)
    PROVE  QueueTypes' /\ PeerTypes' /\ QueuesOurs'
<1>1. /\ toDev[s] \in Seq(Message) /\ toDev[s] # <<>> /\ toPeer[s] \in Seq(Message)
      /\ AskedFor(toDev[s], "ConnRsp") /\ AskedFor(toPeer[s], "ConnReq")
  BY DEF IInv, TypeOK, Incoming, RequestsOurs, QueuesOurs
<1>2. AskedFor(msgs, "ConnReq")
  BY DEF AskedFor
<1>3. /\ Tail(toDev[s]) \in Seq(Message) /\ AskedFor(Tail(toDev[s]), "ConnRsp")
  BY <1>1, TailThenMore, AskedForTail
<1>4. toPeer[s] \o msgs \in Seq(Message) /\ AskedFor(toPeer[s] \o msgs, "ConnReq")
  BY <1>1, <1>2, ConcatProperties, AskedForMore
<1>5. /\ toDev' = [toDev EXCEPT ![s] = Tail(toDev[s])]
      /\ toPeer' = [toPeer EXCEPT ![s] = toPeer[s] \o msgs]
      /\ UNCHANGED <<up, peer, pend, left>>
  BY DEF Answer
<1>6. QueueTypes'
  BY <1>3, <1>4, <1>5 DEF IInv, TypeOK, QueueTypes
<1>7. PeerTypes'
  BY <1>5 DEF IInv, TypeOK, PeerTypes
<1>8. ASSUME NEW t \in Slot
      PROVE  AskedFor(toPeer'[t], "ConnReq") /\ AskedFor(toDev'[t], "ConnRsp")
  <2>1. CASE t = s
    <3>1. toPeer'[t] = toPeer[s] \o msgs /\ toDev'[t] = Tail(toDev[s])
      BY <1>5, <2>1 DEF IInv, TypeOK
    <3>. QED  BY <3>1, <1>3, <1>4
  <2>2. CASE t # s
    <3>1. toPeer'[t] = toPeer[t] /\ toDev'[t] = toDev[t]
      BY <1>5, <2>2 DEF IInv, TypeOK
    <3>. QED  BY <3>1 DEF IInv, RequestsOurs, QueuesOurs
  <2>. QED  BY <2>1, <2>2
<1>. QED  BY <1>6, <1>7, <1>8, QueuesStay

\* Steps of the peer and the link change no field of a channel.
LEMMA DeviceStays ==
    ASSUME IInv, UNCHANGED device
    PROVE  DeviceTypes' /\ PoolInOrder' /\ Kept /\ TmpOurs'
<1>1. DeviceTypes'
  BY DEF IInv, TypeOK, DeviceTypes, device
<1>2. PoolInOrder'
  BY DEF IInv, PoolInOrder, Taken, device
<1>3. Kept
  BY DEF Kept, Ours, device
<1>4. TmpOurs'
  BY DEF IInv, RequestsOurs, TmpOurs, Ours, device
<1>. QED  BY <1>1, <1>2, <1>3, <1>4

\* Options and the peer's number may change in a channel, not its own number.
LEMMA ChannelStays ==
    ASSUME IInv, UNCHANGED <<heap, l2cap_cur_cid>>, chan' \in [Entry -> Channel],
           \A e \in Entry : /\ chan'[e].cid = chan[e].cid
                            /\ chan'[e].connect_initiate = chan[e].connect_initiate
    PROVE  PoolInOrder' /\ Kept
<1>1. PoolInOrder'
  BY DEF IInv, PoolInOrder, Taken
<1>2. Kept
  BY DEF Kept, Ours
<1>. QED  BY <1>1, <1>2

LEMMA Drawn ==
    ASSUME IInv
    PROVE  /\ gen_l2cap_channel_id \in MIN_L2CAP_CID..MAX_L2CAP_CID
           /\ gen_l2cap_channel_id # 0
           /\ gen_l2cap_sig_id \in 0..(SIG_ID_SIZE - 1) /\ gen_l2cap_sig_id \in Nat
           /\ ~is_pool_empty(heap, l2cap_empty_pool) =>
                 /\ FreeEntry \in Entry
                 /\ gen_l2cap_channel_id = MIN_L2CAP_CID + FreeEntry
<1>1. l2cap_cur_cid \in MIN_L2CAP_CID..MAX_L2CAP_CID /\ l2cap_sig_id \in 0..(SIG_ID_SIZE - 1)
  BY DEF IInv, TypeOK
<1>2. gen_l2cap_channel_id \in MIN_L2CAP_CID..MAX_L2CAP_CID /\ gen_l2cap_channel_id # 0
  BY <1>1, ChannelAssumption, PoolAssumption DEF gen_l2cap_channel_id
<1>3. gen_l2cap_sig_id \in 0..(SIG_ID_SIZE - 1) /\ gen_l2cap_sig_id \in Nat
  <2>1. \A x \in Nat : x % SIG_ID_SIZE \in 0..(SIG_ID_SIZE - 1)
    BY ChannelAssumption
  <2>. QED  BY <1>1, <2>1, ChannelAssumption DEF gen_l2cap_sig_id
<1>4. ASSUME ~is_pool_empty(heap, l2cap_empty_pool)
      PROVE  FreeEntry \in Entry /\ gen_l2cap_channel_id = MIN_L2CAP_CID + FreeEntry
  <2>1. FreeEntry \in Entry
    BY <1>4 DEF IInv, TypeOK, Heap, Pool, Node, FreeEntry, is_pool_empty, l2cap_empty_pool
  <2>2. l2cap_cur_cid = MIN_L2CAP_CID + FreeEntry - 1
    BY <1>4 DEF IInv, PoolInOrder, FreeEntry, is_pool_empty
  <2>. QED  BY <1>1, <2>1, <2>2, ChannelAssumption, PoolAssumption
            DEF gen_l2cap_channel_id, Entry
<1>. QED  BY <1>2, <1>3, <1>4

LEMMA Entries == \A e \in Entry : e \in Nat /\ e \in 1..N /\ e # NULL
BY PoolAssumption DEF Entry, NULL, N

LEMMA Unlinked ==
    ASSUME NEW h \in Heap, NEW s \in Slot, h.head[l2cap_empty_pool] \in Entry
    PROVE  LET e == h.head[l2cap_empty_pool]
               g == add_to_pool_head(remove_from_pool_head(h, l2cap_empty_pool), s, e)
           IN  /\ g \in Heap
               /\ g.head[l2cap_empty_pool] = h.next[e] /\ g.head[s] = e
               /\ \A t \in Slot \ {s} : g.head[t] = h.head[t]
               /\ g.next[e] = h.head[s]
               /\ \A n \in Entry \ {e} : g.next[n] = h.next[n]
<1>. DEFINE e == h.head[l2cap_empty_pool]
            r == remove_from_pool_head(h, l2cap_empty_pool)
            g == add_to_pool_head(r, s, e)
<1>1. s \in Pool /\ l2cap_empty_pool \in Pool /\ s # l2cap_empty_pool
  BY SMTT(30) DEF Slot, Pool, l2cap_empty_pool
<1>2. /\ r \in Heap /\ r.head[l2cap_empty_pool] = h.next[e] /\ r.next = h.next
  BY <1>1 DEF remove_from_pool_head, Heap, Node
<1>3. /\ g.head = [r.head EXCEPT ![s] = e]
      /\ g.next = [r.next EXCEPT ![e] = r.head[s]]
      /\ g.prev = [n \in Entry |-> IF n = r.head[s] THEN e
                                   ELSE IF n = e THEN NULL ELSE r.prev[n]]
      /\ g = [head |-> g.head, next |-> g.next, prev |-> g.prev]
  BY DEF add_to_pool_head
<1>4. e \in Node /\ r.head[s] \in Node /\ NULL \in Node
  BY <1>1, <1>2 DEF Heap, Node
<1>5. /\ g.head \in [Pool -> Node] /\ g.next \in [Entry -> Node] /\ g.prev \in [Entry -> Node]
  <2>1. r.head \in [Pool -> Node] /\ r.next \in [Entry -> Node] /\ r.prev \in [Entry -> Node]
    BY <1>2 DEF Heap
  <2>2. g.head \in [Pool -> Node]
    <3>1. \A f \in [Pool -> Node], n \in Node : [f EXCEPT ![s] = n] \in [Pool -> Node]
      OBVIOUS
    <3>. HIDE DEF r, g, e
    <3>. QED  BY <2>1, <1>3, <1>4, <3>1
  <2>3. g.next \in [Entry -> Node]
    BY <2>1, <1>3, <1>4
  <2>4. ASSUME NEW n \in Entry
        PROVE  (IF n = r.head[s] THEN e ELSE IF n = e THEN NULL ELSE r.prev[n]) \in Node
    BY <2>1, <1>4
  <2>5. g.prev \in [Entry -> Node]
    BY <2>4, <1>3
  <2>. QED  BY <2>2, <2>3, <2>5
<1>6. g \in Heap
  BY <1>3, <1>5 DEF Heap
<1>7. g.head[l2cap_empty_pool] = h.next[e]
  BY <1>1, <1>2, <1>3 DEF Heap
<1>8. \A n \in Entry \ {e} : g.next[n] = h.next[n]
  BY <1>2, <1>3 DEF Heap
<1>9. g.head[s] = e /\ g.next[e] = h.head[s]
  <2>1. r.head[s] = h.head[s]
    BY <1>1 DEF remove_from_pool_head, Heap
  <2>2. r.head \in [Pool -> Node] /\ r.next \in [Entry -> Node]
    BY <1>2 DEF Heap
  <2>3. e \in Entry
    OBVIOUS
  <2>. HIDE DEF r, g, e
  <2>. QED  BY <1>1, <1>3, <2>1, <2>2, <2>3
<1>10. \A t \in Slot \ {s} : g.head[t] = h.head[t]
  <2>1. \A t \in Slot : t \in Pool /\ t # l2cap_empty_pool
    BY DEF Slot, Pool, l2cap_empty_pool
  <2>2. \A t \in Slot : r.head[t] = h.head[t]
    BY <2>1 DEF remove_from_pool_head, Heap
  <2>3. r.head \in [Pool -> Node]
    BY <1>2 DEF Heap
  <2>. HIDE DEF r, g, e
  <2>. QED  BY <1>3, <2>1, <2>2, <2>3
<1>. QED  BY <1>6, <1>7, <1>8, <1>9, <1>10

\* The entry behind the head becomes the head: one more is in use.
LEMMA HeadFree == \A f \in Entry : ~(f = NULL \/ f < f)
BY PoolAssumption DEF Entry, NULL

LEMMA HeadMoves ==
    ASSUME NEW f \in Entry, NEW e \in Entry, NEW g, g = IF f = N THEN NULL ELSE f + 1
    PROVE  (g = NULL \/ e < g) <=> (f = NULL \/ e < f) \/ e = f
BY PoolAssumption DEF Entry, NULL, N

LEMMA NumberMoves ==
    ASSUME NEW f \in Entry, NEW g, g # NULL, g = IF f = N THEN NULL ELSE f + 1
    PROVE  MIN_L2CAP_CID + f = MIN_L2CAP_CID + g - 1
BY PoolAssumption, ChannelAssumption DEF Entry, NULL, N

\* The head of the pool goes to a slot with the next number.
LEMMA EntryTaken ==
    ASSUME IInv, NEW s \in Slot, NEW new \in Channel,
           ~is_pool_empty(heap, l2cap_empty_pool), TakeEntry(s, new),
           new.cid = gen_l2cap_channel_id, new.connect_initiate # "",
           l2cap_cur_cid' = gen_l2cap_channel_id
    PROVE  /\ heap' \in Heap /\ chan' \in [Entry -> Channel]
           /\ PoolInOrder' /\ Kept
           /\ chan'[FreeEntry] = new /\ FreeEntry \in Entry
           /\ \A e \in Entry \ {FreeEntry} : chan'[e] = chan[e]
           /\ \A e \in Entry : Taken(e)' <=> Taken(e) \/ e = FreeEntry
<1>. DEFINE after == heap'.head[l2cap_empty_pool]
<1>1. /\ FreeEntry \in Entry /\ heap.head[l2cap_empty_pool] = FreeEntry
      /\ new.cid = MIN_L2CAP_CID + FreeEntry
      /\ l2cap_cur_cid' = MIN_L2CAP_CID + FreeEntry
  BY Drawn DEF FreeEntry
<1>2. /\ heap' = add_to_pool_head(remove_from_pool_head(heap, l2cap_empty_pool), s, FreeEntry)
      /\ chan' = [chan EXCEPT ![FreeEntry] = new]
  BY DEF TakeEntry
<1>3. heap \in Heap /\ chan \in [Entry -> Channel]
  BY DEF IInv, TypeOK
<1>4. /\ heap' \in Heap /\ after = heap.next[FreeEntry]
      /\ \A n \in Entry \ {FreeEntry} : heap'.next[n] = heap.next[n]
  BY <1>1, <1>2, <1>3, Unlinked DEF FreeEntry
<1>5. /\ chan' \in [Entry -> Channel] /\ chan'[FreeEntry] = new
      /\ \A e \in Entry \ {FreeEntry} : chan'[e] = chan[e]
  BY <1>1, <1>2, <1>3
<1>6. ~Taken(FreeEntry)
  BY <1>1, HeadFree DEF Taken
<1>7. /\ chan[FreeEntry].connect_initiate = ""
      /\ after = IF FreeEntry = N THEN NULL ELSE FreeEntry + 1
  BY <1>1, <1>4, <1>6 DEF IInv, PoolInOrder
<1>8. ASSUME NEW e \in Entry PROVE Taken(e)' <=> Taken(e) \/ e = FreeEntry
  <2>1. Taken(e)' <=> (after = NULL \/ e < after)
    BY DEF Taken
  <2>2. Taken(e) <=> (FreeEntry = NULL \/ e < FreeEntry)
    BY <1>1 DEF Taken
  <2>3. PICK f \in Entry : f = FreeEntry
    BY <1>1
  <2>4. PICK g : g = after
    OBVIOUS
  <2>5. g = IF f = N THEN NULL ELSE f + 1
    BY <1>7, <2>3, <2>4
  <2>6. (g = NULL \/ e < g) <=> (f = NULL \/ e < f) \/ e = f
    BY <2>5, HeadMoves
  <2>. QED  BY <2>1, <2>2, <2>3, <2>4, <2>6
<1>9. ASSUME NEW e \in Entry
      PROVE  /\ ~Taken(e)' => heap'.next[e] = IF e = N THEN NULL ELSE e + 1
             /\ Taken(e)' <=> chan'[e].connect_initiate # ""
             /\ Taken(e)' => chan'[e].cid = MIN_L2CAP_CID + e
  <2>1. CASE e = FreeEntry
    BY <1>1, <1>5, <1>8, <2>1
  <2>2. CASE e # FreeEntry
    <3>1. chan'[e] = chan[e] /\ heap'.next[e] = heap.next[e] /\ (Taken(e)' <=> Taken(e))
      BY <1>4, <1>5, <1>8, <2>2
    <3>2. /\ ~Taken(e) => heap.next[e] = IF e = N THEN NULL ELSE e + 1
          /\ Taken(e) <=> chan[e].connect_initiate # ""
          /\ Taken(e) => chan[e].cid = MIN_L2CAP_CID + e
      BY DEF IInv, PoolInOrder
    <3>. QED  BY <3>1, <3>2
  <2>. QED  BY <2>1, <2>2
<1>10. after # NULL => l2cap_cur_cid' = MIN_L2CAP_CID + after - 1
  <2>1. after # NULL => MIN_L2CAP_CID + FreeEntry = MIN_L2CAP_CID + after - 1
    BY <1>1, <1>7, NumberMoves
  <2>. QED  BY <1>1, <2>1
<1>11. PoolInOrder'
  BY <1>9, <1>10 DEF PoolInOrder
<1>12. Kept
  <2>. SUFFICES ASSUME NEW cid \in Ours PROVE cid \in Ours'
    BY DEF Kept
  <2>1. PICK e \in Entry : chan[e].cid = cid /\ chan[e].connect_initiate = "LOCAL"
    BY DEF Ours
  <2>2. e # FreeEntry
    BY <1>7, <2>1
  <2>3. chan'[e] = chan[e]
    BY <1>5, <2>2
  <2>. QED  BY <2>1, <2>3 DEF Ours
<1>. QED  BY <1>1, <1>4, <1>5, <1>8, <1>11, <1>12

LEMMA EntryMissing ==
    ASSUME IInv, is_pool_empty(heap, l2cap_empty_pool), UNCHANGED <<heap, chan>>
    PROVE  /\ heap' \in Heap /\ chan' \in [Entry -> Channel]
           /\ PoolInOrder' /\ Kept
<1>1. heap.head[l2cap_empty_pool] = NULL
  BY DEF is_pool_empty
<1>2. PoolInOrder'
  BY <1>1 DEF IInv, PoolInOrder, Taken
<1>3. Kept
  BY DEF Kept, Ours
<1>. QED  BY <1>2, <1>3 DEF IInv, TypeOK

LEMMA Spent ==
    ASSUME IInv, NEW what \in {"links", "requests"}, Spend(what)
    PROVE  left' \in [{"links", "requests"} -> Nat]
<1>1. left[what] \in Nat /\ left[what] - 1 \in Nat
  BY DEF IInv, TypeOK, Spend
<1>. QED  BY <1>1 DEF IInv, TypeOK, Spend

\* The oldest message of a link and what is known of it.
LEMMA Received ==
    ASSUME IInv, NEW s \in Slot, NEW codes, Incoming(s, codes)
    PROVE  LET m == Head(toDev[s])
           IN  /\ m \in Message /\ m.code \in codes
               /\ m.code = "ConnRsp" => m.scid \in Ours
<1>1. toDev[s] \in Seq(Message) /\ toDev[s] # <<>> /\ AskedFor(toDev[s], "ConnRsp")
  BY DEF IInv, TypeOK, Incoming, RequestsOurs, QueuesOurs
<1>2. Head(toDev[s]) \in Message /\ toDev[s][1] = Head(toDev[s]) /\ 1 \in 1..Len(toDev[s])
  BY <1>1, TailThenMore
<1>. QED  BY <1>1, <1>2 DEF Incoming, AskedFor

LEMMA OursTyped ==
    ASSUME IInv, NEW cid \in Ours
    PROVE  cid \in 0..MAX_L2CAP_CID
BY DEF IInv, TypeOK, Channel, Ours

LEMMA Assembled ==
    ASSUME DeviceTypes', QueueTypes', PeerTypes', PoolInOrder', QueuesOurs',
           TmpOurs'
    PROVE  IInv'
BY DEF IInv, RequestsOurs, TypeOK, DeviceTypes, QueueTypes, PeerTypes

\* A connection request put behind a queue, for a channel that is the device's.
LEMMA ConnReqSent ==
    ASSUME IInv, Kept, NEW s \in Slot, NEW cid \in Nat, NEW id \in Nat, cid \in Ours',
           toPeer' = [toPeer EXCEPT ![s] = Append(toPeer[s], ConnReq(id, cid))],
           UNCHANGED toDev
    PROVE  QueueTypes' /\ QueuesOurs'
<1>1. /\ toPeer \in [Slot -> Seq(Message)] /\ toDev \in [Slot -> Seq(Message)]
      /\ toPeer[s] \in Seq(Message)
  BY DEF IInv, TypeOK
<1>2. /\ ConnReq(id, cid) \in Message /\ ConnReq(id, cid).scid = cid
  BY DEF ConnReq, Message
<1>3. /\ Append(toPeer[s], ConnReq(id, cid)) \in Seq(Message)
      /\ Len(Append(toPeer[s], ConnReq(id, cid))) = Len(toPeer[s]) + 1
      /\ Append(toPeer[s], ConnReq(id, cid))[Len(toPeer[s]) + 1] = ConnReq(id, cid)
      /\ \A i \in 1..Len(toPeer[s]) :
            Append(toPeer[s], ConnReq(id, cid))[i] = toPeer[s][i]
      /\ Len(toPeer[s]) \in Nat
  BY <1>1, <1>2, AppendProperties, LenProperties
<1>4. QueueTypes'
  BY <1>1, <1>3 DEF QueueTypes
<1>5. \A t \in Slot : AskedFor(toPeer[t], "ConnReq") /\ AskedFor(toDev[t], "ConnRsp")
  BY DEF IInv, RequestsOurs, QueuesOurs
<1>6. ASSUME NEW t \in Slot, NEW i \in 1..Len(toPeer'[t]), toPeer'[t][i].code = "ConnReq"
      PROVE  toPeer'[t][i].scid \in Ours'
  <2>1. CASE t # s
    <3>1. toPeer'[t] = toPeer[t]
      BY <1>1, <2>1
    <3>. QED  BY <1>5, <1>6, <3>1 DEF AskedFor, Kept
  <2>2. CASE t = s /\ i \in 1..Len(toPeer[s])
    <3>1. toPeer'[t][i] = toPeer[s][i]
      BY <1>1, <1>3, <2>2
    <3>. QED  BY <1>5, <1>6, <2>2, <3>1 DEF AskedFor, Kept
  <2>3. CASE t = s /\ i = Len(toPeer[s]) + 1
    <3>1. toPeer'[t][i] = ConnReq(id, cid)
      BY <1>1, <1>3, <2>3
    <3>. QED  BY <1>2, <3>1
  <2>. QED
    <3>1. t = s => Len(toPeer'[t]) = Len(toPeer[s]) + 1
      BY <1>1, <1>3
    <3>. QED  BY <1>3, <2>1, <2>2, <2>3, <3>1
<1>7. ASSUME NEW t \in Slot, NEW i \in 1..Len(toDev'[t]), toDev'[t][i].code = "ConnRsp"
      PROVE  toDev'[t][i].scid \in Ours'
  BY <1>5, <1>7 DEF AskedFor, Kept
<1>. QED  BY <1>4, <1>6, <1>7 DEF QueuesOurs, AskedFor

-----------------------------------------------------------------------------
(* The steps of the device                                                   *)

LEMMA LinkUpStep ==
    ASSUME IInv, NEW s \in Slot, LinkUp(s)
    PROVE  IInv'
<1>1. /\ left' \in [{"links", "requests"} -> Nat]
      /\ up' = [up EXCEPT ![s] = TRUE] /\ UNCHANGED <<toDev, peer, pend>>
  BY Spent DEF LinkUp
<1>2. PeerTypes'
  BY <1>1 DEF IInv, TypeOK, PeerTypes
<1>3. CASE is_pool_empty(heap, l2cap_empty_pool)
  <2>1. UNCHANGED <<heap, chan, l2cap_cur_cid, l2cap_sig_id, tmp_chid, toPeer>>
    BY <1>3 DEF LinkUp, TakeEntry
  <2>2. UNCHANGED device /\ UNCHANGED <<toPeer, toDev>>
    BY <1>1, <2>1 DEF device
  <2>3. QueueTypes' /\ QueuesOurs'
    BY <2>2, ZenonT(40)
       DEF IInv, TypeOK, QueueTypes, RequestsOurs, QueuesOurs, AskedFor, Ours, device
  <2>. QED  BY <1>2, <2>2, <2>3, DeviceStays, Assembled
<1>4. CASE ~is_pool_empty(heap, l2cap_empty_pool)
  <2>1. PICK cid, id : cid = gen_l2cap_channel_id /\ id = gen_l2cap_sig_id
    OBVIOUS
  <2>2. /\ cid \in MIN_L2CAP_CID..MAX_L2CAP_CID /\ cid \in 0..MAX_L2CAP_CID /\ cid \in Nat
        /\ id \in 0..(SIG_ID_SIZE - 1) /\ id \in Nat
        /\ FreeEntry \in Entry
    BY <1>4, <2>1, Drawn, ChannelAssumption
  <2>. DEFINE new == [chan[FreeEntry] EXCEPT !.cid = cid, !.connect_initiate = "LOCAL"]
  <2>3. /\ l2cap_cur_cid' = cid /\ tmp_chid' = cid /\ l2cap_sig_id' = id
        /\ toPeer' = [toPeer EXCEPT ![s] = Append(toPeer[s], ConnReq(id, cid))]
        /\ TakeEntry(s, new)
    BY <1>4, <2>1 DEF LinkUp
  <2>4. new \in Channel /\ new.cid = cid /\ new.connect_initiate = "LOCAL"
    BY <2>2 DEF IInv, TypeOK, Channel
  <2>5. /\ heap' \in Heap /\ chan' \in [Entry -> Channel] /\ PoolInOrder' /\ Kept
        /\ chan'[FreeEntry] = new
    <3>. HIDE DEF new
    <3>. QED  BY <1>4, <2>1, <2>3, <2>4, EntryTaken
  <2>6. DeviceTypes'
    BY <2>2, <2>3, <2>5 DEF DeviceTypes
  <2>7. cid \in Ours'
    BY <2>2, <2>4, <2>5 DEF Ours
  <2>8. QueueTypes' /\ QueuesOurs'
    BY <1>1, <2>2, <2>3, <2>5, <2>7, ConnReqSent
  <2>9. TmpOurs'
    BY <2>3, <2>7 DEF TmpOurs
  <2>. QED  BY <1>2, <2>5, <2>6, <2>8, <2>9, Assembled
<1>. QED  BY <1>3, <1>4

LEMMA ConnectionRequestStep ==
    ASSUME IInv, NEW s \in Slot, ConnectionRequest(s)
    PROVE  IInv'
<1>. DEFINE m == Head(toDev[s])
<1>1. PICK cid, id : cid = gen_l2cap_channel_id /\ id = gen_l2cap_sig_id
  OBVIOUS
<1>2. /\ cid \in MIN_L2CAP_CID..MAX_L2CAP_CID /\ cid \in 0..MAX_L2CAP_CID /\ cid \in Nat
      /\ id \in 0..(SIG_ID_SIZE - 1) /\ id \in Nat
  BY <1>1, Drawn, ChannelAssumption
<1>3. m \in Message /\ m.id \in Nat /\ m.scid \in Nat /\ Incoming(s, {"ConnReq"})
  <2>1. m \in Message /\ m.code = "ConnReq" /\ Incoming(s, {"ConnReq"})
    BY Received DEF ConnectionRequest
  <2>. QED  BY <2>1, Fields
<1>. DEFINE new == [chan[FreeEntry] EXCEPT !.cid = cid, !.dcid = m.scid,
                                           !.connect_initiate = "REMOTE"]
            msgs == <<ConnRsp(m.id, cid, m.scid, "success"), ConfReq(id, m.scid, OurOptions)>>
<1>4. /\ l2cap_cur_cid' = cid /\ l2cap_sig_id' = id /\ tmp_chid' = tmp_chid
      /\ TakeEntry(s, new) /\ Answer(s, msgs)
  BY <1>1 DEF ConnectionRequest
<1>5. /\ heap' \in Heap /\ chan' \in [Entry -> Channel] /\ PoolInOrder' /\ Kept
  <2>1. CASE is_pool_empty(heap, l2cap_empty_pool)
    BY <1>4, <2>1, EntryMissing DEF TakeEntry
  <2>2. CASE ~is_pool_empty(heap, l2cap_empty_pool)
    <3>1. FreeEntry \in Entry
      BY <2>2, Drawn
    <3>2. new \in Channel /\ new.cid = cid /\ new.connect_initiate = "REMOTE"
      BY <1>2, <1>3, <3>1 DEF IInv, TypeOK, Channel
    <3>. HIDE DEF new
    <3>. QED  BY <1>1, <1>4, <2>2, <3>2, EntryTaken
  <2>. QED  BY <2>1, <2>2
<1>6. DeviceTypes'
  BY <1>2, <1>4, <1>5 DEF DeviceTypes, IInv, TypeOK
<1>7. TmpOurs'
  BY <1>4, <1>5 DEF TmpOurs, Kept, IInv, RequestsOurs
<1>8. QueueTypes' /\ PeerTypes' /\ QueuesOurs'
  <2>1. /\ ConnRsp(m.id, cid, m.scid, "success") \in Message
        /\ ConfReq(id, m.scid, OurOptions) \in Message
    BY <1>2, <1>3, OptionTypes, Constructed
  <2>2. /\ ConnRsp(m.id, cid, m.scid, "success").code # "ConnReq"
        /\ ConfReq(id, m.scid, OurOptions).code # "ConnReq"
    BY DEF ConnRsp, ConfReq
  <2>3. msgs \in Seq(Message) /\ \A i \in 1..Len(msgs) : msgs[i].code # "ConnReq"
    <3>. HIDE DEF m
    <3>. QED  BY <2>1, <2>2
  <2>. HIDE DEF msgs
  <2>. QED  BY <1>3, <1>4, <1>5, <2>3, AnswerStays
<1>. QED  BY <1>5, <1>6, <1>7, <1>8, Assembled

\* Every other handler draws no entry and no number.
LEMMA HandlerStays ==
    ASSUME IInv, NEW s \in Slot, NEW codes, Incoming(s, codes),
           UNCHANGED <<heap, l2cap_cur_cid>>, chan' \in [Entry -> Channel],
           \A e \in Entry : /\ chan'[e].cid = chan[e].cid
                            /\ chan'[e].connect_initiate = chan[e].connect_initiate,
           l2cap_sig_id' \in {l2cap_sig_id, gen_l2cap_sig_id},
           tmp_chid' = tmp_chid \/ tmp_chid' \in Ours,
           NEW msgs \in Seq(Message), \A i \in 1..Len(msgs) : msgs[i].code # "ConnReq",
           Answer(s, msgs)
    PROVE  IInv'
<1>1. PoolInOrder' /\ Kept
  BY ChannelStays
<1>2. DeviceTypes'
  BY Drawn, OursTyped DEF DeviceTypes, IInv, TypeOK
<1>3. TmpOurs'
  BY <1>1 DEF TmpOurs, Kept, IInv, RequestsOurs
<1>4. QueueTypes' /\ PeerTypes' /\ QueuesOurs'
  BY <1>1, AnswerStays
<1>. QED  BY <1>1, <1>2, <1>3, <1>4, Assembled

\* One answer, or none: no channel is asked for.
LEMMA OneAnswer ==
    ASSUME NEW m \in Message, m.code # "ConnReq"
    PROVE  <<m>> \in Seq(Message) /\ \A i \in 1..Len(<<m>>) : <<m>>[i].code # "ConnReq"
OBVIOUS

LEMMA NoAnswer ==
    /\ <<>> \in Seq(Message) /\ \A i \in 1..Len(<<>>) : <<>>[i].code # "ConnReq"
OBVIOUS

LEMMA ConnectionResponseStep ==
    ASSUME IInv, NEW s \in Slot, ConnectionResponse(s)
    PROVE  IInv'
<1>. DEFINE m == Head(toDev[s])
            conn == get_l2cap_conn_from_channel_id(s, m.scid)
<1>1. /\ Incoming(s, {"ConnRsp"}) /\ m \in Message /\ m.code = "ConnRsp" /\ m.scid \in Ours
      /\ UNCHANGED <<heap, l2cap_cur_cid>> /\ tmp_chid' \in Ours
  BY Received DEF ConnectionResponse
<1>2. m.dcid \in Nat
  BY <1>1, Fields
<1>3. chan \in [Entry -> Channel]
  BY DEF IInv, TypeOK
<1>4. CASE m.result = "success" /\ conn # NULL
  <2>1. PICK id : id = gen_l2cap_sig_id
    OBVIOUS
  <2>2. /\ chan' = [chan EXCEPT ![conn].dcid = m.dcid] /\ l2cap_sig_id' = id
        /\ Answer(s, <<ConfReq(id, m.dcid, OurOptions)>>)
    BY <1>4, <2>1 DEF ConnectionResponse
  <2>3. ConfReq(id, m.dcid, OurOptions) \in Message
    BY <1>2, <2>1, Drawn, OptionTypes, Constructed
  <2>4. ConfReq(id, m.dcid, OurOptions).code # "ConnReq"
    BY DEF ConfReq
  <2>5. /\ chan' \in [Entry -> Channel]
        /\ \A e \in Entry : /\ chan'[e].cid = chan[e].cid
                            /\ chan'[e].connect_initiate = chan[e].connect_initiate
    <3>. HIDE DEF m, conn
    <3>. QED  BY <1>2, <1>3, <2>2, ZenonT(40) DEF Channel
  <2>. HIDE DEF m
  <2>. QED  BY <1>1, <2>1, <2>2, <2>3, <2>4, <2>5, OneAnswer, HandlerStays
<1>5. CASE ~(m.result = "success" /\ conn # NULL)
  <2>1. Answer(s, <<>>) /\ UNCHANGED <<chan, l2cap_sig_id>>
    BY <1>5 DEF ConnectionResponse
  <2>. QED  BY <1>1, <1>3, <2>1, NoAnswer, HandlerStays
<1>. QED  BY <1>4, <1>5

LEMMA ConfigurationRequestStep ==
    ASSUME IInv, NEW s \in Slot, ConfigurationRequest(s)
    PROVE  IInv'
<1>. DEFINE m == Head(toDev[s])
            conn == get_l2cap_conn_from_channel_id(s, m.dcid)
            result(opt) == IF Refused(opt) = {} THEN "success" ELSE "unacceptable"
            rsp(opt, dcid) == ConfRsp(m.id, dcid, result(opt), Hints(opt))
<1>1. /\ Incoming(s, {"ConfReq"}) /\ m \in Message /\ m.code = "ConfReq"
      /\ UNCHANGED <<heap, l2cap_cur_cid, l2cap_sig_id, tmp_chid>>
  <2>1. Incoming(s, {"ConfReq"}) /\ UNCHANGED <<heap, l2cap_cur_cid, l2cap_sig_id, tmp_chid>>
    BY DEF ConfigurationRequest
  <2>. QED  BY <2>1, Received, SMTT(30)
<1>2. m.id \in Nat /\ m.dcid \in Nat /\ m.opt \in Options
  BY <1>1, Fields
<1>3. chan \in [Entry -> Channel] /\ peer[s] \subseteq PeerChannel
  BY DEF IInv, TypeOK
<1>4. ASSUME NEW opt \in Options, NEW dcid \in Nat
      PROVE  rsp(opt, dcid) \in Message /\ rsp(opt, dcid).code # "ConnReq"
  <2>1. Hints(opt) \in Options
    BY OptionTypes
  <2>2. rsp(opt, dcid) \in Message
    BY <1>2, <2>1, Constructed
  <2>3. rsp(opt, dcid).code # "ConnReq"
    BY DEF ConfRsp
  <2>. QED  BY <2>2, <2>3
<1>5. CASE conn \in Entry /\ UNCHANGED <<heap, l2cap_cur_cid, l2cap_sig_id, tmp_chid>>
           /\ LET opt == get_options(chan[conn].conf_opt, m.opt)
              IN  /\ chan' = [chan EXCEPT ![conn].conf_opt = opt]
                  /\ Answer(s, <<rsp(opt, chan[conn].dcid)>>)
  <2>1. PICK opt, dcid : /\ opt = get_options(chan[conn].conf_opt, m.opt)
                         /\ dcid = chan[conn].dcid
    OBVIOUS
  <2>2. chan[conn].conf_opt \in Options /\ chan[conn].dcid \in Nat
    BY <1>3, <1>5 DEF Channel
  <2>3. opt \in Options /\ dcid \in Nat
    BY <1>2, <2>1, <2>2, OptionTypes, SMTT(30)
  <2>4. /\ chan' = [chan EXCEPT ![conn].conf_opt = opt]
        /\ Answer(s, <<rsp(opt, dcid)>>)
    BY <1>5, <2>1
  <2>5. /\ chan' \in [Entry -> Channel]
        /\ \A e \in Entry : /\ chan'[e].cid = chan[e].cid
                            /\ chan'[e].connect_initiate = chan[e].connect_initiate
    <3>. HIDE DEF conn
    <3>. QED  BY <1>3, <2>3, <2>4 DEF Channel
  <2>6. rsp(opt, dcid) \in Message /\ rsp(opt, dcid).code # "ConnReq"
    BY <1>4, <2>3
  <2>. HIDE DEF rsp
  <2>. QED  BY <1>1, <2>4, <2>5, <2>6, OneAnswer, HandlerStays
<1>6. CASE UNCHANGED <<heap, chan, l2cap_cur_cid, l2cap_sig_id, tmp_chid>>
           /\ \E opt \in {OurOptions, [mtu |-> "bad", fto |-> "bad"]},
                 dcid \in {0} \cup {c.own : c \in {d \in peer[s] : d.dev = m.dcid}} :
                    Answer(s, <<rsp(opt, dcid)>>)
  <2>1. PICK opt \in {OurOptions, [mtu |-> "bad", fto |-> "bad"]},
             dcid \in {0} \cup {c.own : c \in {d \in peer[s] : d.dev = m.dcid}} :
                 Answer(s, <<rsp(opt, dcid)>>)
    BY <1>6
  <2>2. opt \in Options
    BY OptionTypes DEF Options, OptionValue
  <2>3. dcid \in Nat
    BY <1>3 DEF PeerChannel
  <2>4. rsp(opt, dcid) \in Message /\ rsp(opt, dcid).code # "ConnReq"
    BY <1>4, <2>2, <2>3
  <2>. HIDE DEF rsp
  <2>. QED  BY <1>1, <1>3, <1>6, <2>1, <2>4, OneAnswer, HandlerStays
<1>. QED  BY <1>5, <1>6 DEF ConfigurationRequest

LEMMA ConfigurationResponseStep ==
    ASSUME IInv, NEW s \in Slot, ConfigurationResponse(s)
    PROVE  IInv'
<1>. DEFINE m == Head(toDev[s])
<1>1. /\ Incoming(s, {"ConfRsp"}) /\ m \in Message /\ m.code = "ConfRsp"
      /\ UNCHANGED <<heap, l2cap_cur_cid, l2cap_sig_id, tmp_chid>> /\ Answer(s, <<>>)
  BY Received DEF ConfigurationResponse
<1>2. m.opt \in Options
  BY <1>1, Fields
<1>3. chan \in [Entry -> Channel]
  BY DEF IInv, TypeOK
<1>4. /\ chan' \in [Entry -> Channel]
      /\ \A e \in Entry : /\ chan'[e].cid = chan[e].cid
                          /\ chan'[e].connect_initiate = chan[e].connect_initiate
  <2>1. CASE UNCHANGED chan
    BY <1>3, <2>1
  <2>2. CASE \E conn \in Entry :
                chan' = [chan EXCEPT ![conn].conf_opt = get_options(@, m.opt)]
    <3>1. PICK conn \in Entry :
             chan' = [chan EXCEPT ![conn].conf_opt = get_options(@, m.opt)]
      BY <2>2
    <3>2. PICK opt : opt = get_options(chan[conn].conf_opt, m.opt)
      OBVIOUS
    <3>3. opt \in Options
      BY <1>2, <1>3, <3>2, OptionTypes DEF Channel
    <3>4. chan' = [chan EXCEPT ![conn].conf_opt = opt]
      BY <3>1, <3>2
    <3>. QED  BY <1>3, <3>3, <3>4 DEF Channel
  <2>. QED  BY <2>1, <2>2 DEF ConfigurationResponse
<1>. QED  BY <1>1, <1>4, NoAnswer, HandlerStays

\* The handlers that change no variable of the device.
LEMMA AnswererStep ==
    ASSUME IInv, NEW s \in Slot,
           DisconnectionRequest(s) \/ EchoRequest(s) \/ InfoRequest(s) \/ CommandReject(s)
    PROVE  IInv'
<1>. DEFINE m == Head(toDev[s])
<1>1. PICK codes : /\ codes \subseteq {"DiscReq", "EchoReq", "InfoReq", "Reject"}
                   /\ Incoming(s, codes)
  BY DEF DisconnectionRequest, EchoRequest, InfoRequest, CommandReject
<1>2. m \in Message /\ m.code \in codes
  BY <1>1, Received
<1>3. UNCHANGED <<heap, chan, l2cap_cur_cid, l2cap_sig_id, tmp_chid>>
  BY DEF DisconnectionRequest, EchoRequest, InfoRequest, CommandReject, device
<1>4. chan \in [Entry -> Channel]
  BY DEF IInv, TypeOK
<1>5. \/ Answer(s, <<>>)
      \/ \E a \in Message : a.code # "ConnReq" /\ Answer(s, <<a>>)
  <2>1. CASE DisconnectionRequest(s)
    <3>1. Answer(s, <<DiscRsp(m.id, m.dcid, m.scid)>>) /\ m.code = "DiscReq"
      BY <2>1 DEF DisconnectionRequest, Incoming
    <3>2. m.id \in Nat /\ m.dcid \in Nat /\ m.scid \in Nat
      BY <1>2, <3>1, Fields
    <3>3. /\ DiscRsp(m.id, m.dcid, m.scid) \in Message
          /\ DiscRsp(m.id, m.dcid, m.scid).code # "ConnReq"
      BY <3>2, OptionTypes, Constructed DEF DiscRsp
    <3>. QED  BY <3>1, <3>3
  <2>2. CASE EchoRequest(s)
    <3>1. Answer(s, <<Bare("EchoRsp", m.id)>>) /\ m.code = "EchoReq"
      BY <2>2 DEF EchoRequest, Incoming
    <3>2. m.id \in Nat
      BY <1>2, <3>1, Fields
    <3>3. Bare("EchoRsp", m.id) \in Message /\ Bare("EchoRsp", m.id).code # "ConnReq"
      BY <3>2, OptionTypes, Constructed DEF Bare
    <3>. QED  BY <3>1, <3>3
  <2>3. CASE InfoRequest(s)
    <3>1. Bare("InfoRsp", 0) \in Message /\ Bare("InfoRsp", 0).code # "ConnReq"
      BY OptionTypes, Constructed DEF Bare
    <3>. QED  BY <2>3, <3>1 DEF InfoRequest
  <2>4. CASE CommandReject(s)
    BY <2>4 DEF CommandReject
  <2>. QED  BY <2>1, <2>2, <2>3, <2>4
<1>6. CASE Answer(s, <<>>)
  BY <1>1, <1>3, <1>4, <1>6, NoAnswer, HandlerStays
<1>7. CASE \E a \in Message : a.code # "ConnReq" /\ Answer(s, <<a>>)
  <2>1. PICK a \in Message : a.code # "ConnReq" /\ Answer(s, <<a>>)
    BY <1>7
  <2>. QED  BY <1>1, <1>3, <1>4, <2>1, OneAnswer, HandlerStays
<1>. QED  BY <1>5, <1>6, <1>7

-----------------------------------------------------------------------------
(* The steps of the button, the link and the peers                           *)

LEMMA AskedForOne ==
    ASSUME IInv, NEW q \in Seq(Message), NEW m \in Message, NEW code, AskedFor(q, code),
           m.code = code => m.scid \in Ours
    PROVE  Append(q, m) \in Seq(Message) /\ AskedFor(Append(q, m), code)
<1>1. <<m>> \in Seq(Message) /\ Append(q, m) = q \o <<m>>
  BY AppendIsConcat
<1>2. AskedFor(<<m>>, code)
  BY DEF AskedFor
<1>. QED  BY <1>1, <1>2, AskedForMore, AppendProperties

\* A step outside the device that leaves no wrong number under way.
LEMMA DeviceKept ==
    ASSUME IInv, UNCHANGED device, QueueTypes', PeerTypes',
           \A s \in Slot : AskedFor(toPeer'[s], "ConnReq") /\ AskedFor(toDev'[s], "ConnRsp")
    PROVE  IInv'
BY DeviceStays, QueuesStay, Assembled

LEMMA ButtonStep ==
    ASSUME IInv, rfcomm_connect_request
    PROVE  IInv'
<1>1. PICK conn \in Entry :
         toPeer' = [toPeer EXCEPT ![TestSlot] = Append(toPeer[TestSlot], Sabm(chan[conn].dcid))]
  BY DEF rfcomm_connect_request
<1>2. /\ left' \in [{"links", "requests"} -> Nat] /\ UNCHANGED <<device, up, toDev, peer, pend>>
  BY Spent DEF rfcomm_connect_request
<1>3. /\ Sabm(chan[conn].dcid) \in Message /\ Sabm(chan[conn].dcid).code # "ConnReq"
  <2>1. chan[conn].dcid \in Nat
    BY DEF IInv, TypeOK, Channel
  <2>. QED  BY <2>1, OptionTypes, Constructed DEF Sabm
<1>4. TestSlot \in Slot
  BY ChannelAssumption
<1>5. /\ Append(toPeer[TestSlot], Sabm(chan[conn].dcid)) \in Seq(Message)
      /\ AskedFor(Append(toPeer[TestSlot], Sabm(chan[conn].dcid)), "ConnReq")
  <2>1. toPeer[TestSlot] \in Seq(Message) /\ AskedFor(toPeer[TestSlot], "ConnReq")
    BY <1>4 DEF IInv, TypeOK, RequestsOurs, QueuesOurs
  <2>. QED  BY <1>3, <2>1, AskedForOne
<1>6. QueueTypes' /\ PeerTypes'
  BY <1>1, <1>2, <1>5 DEF IInv, TypeOK, QueueTypes, PeerTypes
<1>7. ASSUME NEW s \in Slot
      PROVE  AskedFor(toPeer'[s], "ConnReq") /\ AskedFor(toDev'[s], "ConnRsp")
  <2>1. toPeer'[s] = toPeer[s] \/ toPeer'[s] = Append(toPeer[TestSlot], Sabm(chan[conn].dcid))
    BY <1>1, <1>4 DEF IInv, TypeOK
  <2>. QED  BY <1>2, <1>5, <2>1 DEF IInv, RequestsOurs, QueuesOurs
<1>. QED  BY <1>2, <1>6, <1>7, DeviceKept

LEMMA LinkDownStep ==
    ASSUME IInv, NEW s \in Slot, LinkDown(s)
    PROVE  IInv'
<1>1. /\ UNCHANGED device /\ up' = [up EXCEPT ![s] = FALSE] /\ left' = left
      /\ toPeer' = [toPeer EXCEPT ![s] = <<>>] /\ toDev' = [toDev EXCEPT ![s] = <<>>]
      /\ peer' = [peer EXCEPT ![s] = {}] /\ pend' = [pend EXCEPT ![s] = <<>>]
  BY DEF LinkDown
<1>2. QueueTypes'
  BY <1>1 DEF IInv, TypeOK, QueueTypes
<1>3. PeerTypes'
  BY <1>1 DEF IInv, TypeOK, PeerTypes
<1>4. ASSUME NEW t \in Slot
      PROVE  AskedFor(toPeer'[t], "ConnReq") /\ AskedFor(toDev'[t], "ConnRsp")
  <2>1. /\ toPeer'[t] = toPeer[t] \/ toPeer'[t] = <<>>
        /\ toDev'[t] = toDev[t] \/ toDev'[t] = <<>>
    BY <1>1 DEF IInv, TypeOK
  <2>2. \A code : AskedFor(<<>>, code)
    BY DEF AskedFor
  <2>3. AskedFor(toPeer[t], "ConnReq") /\ AskedFor(toDev[t], "ConnRsp")
    BY DEF IInv, RequestsOurs, QueuesOurs
  <2>. QED  BY <2>1, <2>2, <2>3
<1>. QED  BY <1>1, <1>2, <1>3, <1>4, DeviceKept

\* A peer takes a message and puts answers behind the device's queue.
LEMMA ConsumeStays ==
    ASSUME IInv, NEW s \in Slot, toPeer[s] # <<>>,
           NEW msgs \in Seq(Message), AskedFor(msgs, "ConnRsp"), Consume(s, msgs)
    PROVE  /\ QueueTypes'
           /\ \A t \in Slot : AskedFor(toPeer'[t], "ConnReq") /\ AskedFor(toDev'[t], "ConnRsp")
<1>1. /\ toPeer \in [Slot -> Seq(Message)] /\ toDev \in [Slot -> Seq(Message)]
      /\ \A t \in Slot : AskedFor(toPeer[t], "ConnReq") /\ AskedFor(toDev[t], "ConnRsp")
  BY DEF IInv, TypeOK, RequestsOurs, QueuesOurs
<1>2. /\ toPeer' = [toPeer EXCEPT ![s] = Tail(toPeer[s])]
      /\ toDev' = [toDev EXCEPT ![s] = toDev[s] \o msgs]
  BY DEF Consume
<1>3. /\ Tail(toPeer[s]) \in Seq(Message) /\ AskedFor(Tail(toPeer[s]), "ConnReq")
      /\ toDev[s] \o msgs \in Seq(Message) /\ AskedFor(toDev[s] \o msgs, "ConnRsp")
  <2>1. toPeer[s] \in Seq(Message) /\ toDev[s] \in Seq(Message)
    BY <1>1
  <2>. QED  BY <1>1, <2>1, TailThenMore, AskedForTail, AskedForMore
<1>4. QueueTypes'
  BY <1>1, <1>2, <1>3 DEF QueueTypes
<1>5. ASSUME NEW t \in Slot
      PROVE  AskedFor(toPeer'[t], "ConnReq") /\ AskedFor(toDev'[t], "ConnRsp")
  <2>1. CASE t = s
    <3>1. toPeer'[t] = Tail(toPeer[s]) /\ toDev'[t] = toDev[s] \o msgs
      BY <1>1, <1>2, <2>1
    <3>. QED  BY <1>3, <3>1
  <2>2. CASE t # s
    <3>1. toPeer'[t] = toPeer[t] /\ toDev'[t] = toDev[t]
      BY <1>1, <1>2, <2>2
    <3>. QED  BY <1>1, <3>1
  <2>. QED  BY <2>1, <2>2
<1>. QED  BY <1>4, <1>5

\* A peer puts a request behind the device's queue and remembers it.
LEMMA AskStays ==
    ASSUME IInv, NEW s \in Slot, NEW m \in Message, m.code \in Request, m.id \in Nat, Ask(s, m), UNCHANGED toPeer
    PROVE  /\ QueueTypes' /\ pend' \in [Slot -> Seq(Request \X Nat)]
           /\ \A t \in Slot : AskedFor(toPeer'[t], "ConnReq") /\ AskedFor(toDev'[t], "ConnRsp")
<1>1. /\ toPeer \in [Slot -> Seq(Message)] /\ toDev \in [Slot -> Seq(Message)]
      /\ pend \in [Slot -> Seq(Request \X Nat)]
      /\ \A t \in Slot : AskedFor(toPeer[t], "ConnReq") /\ AskedFor(toDev[t], "ConnRsp")
  BY DEF IInv, TypeOK, RequestsOurs, QueuesOurs
<1>2. /\ toDev' = [toDev EXCEPT ![s] = Append(toDev[s], m)]
      /\ pend' = [pend EXCEPT ![s] = Append(pend[s], <<m.code, m.id>>)]
  BY DEF Ask
<1>3. /\ Append(toDev[s], m) \in Seq(Message) /\ AskedFor(Append(toDev[s], m), "ConnRsp")
  BY <1>1, AskedForOne DEF Request
<1>4. Append(pend[s], <<m.code, m.id>>) \in Seq(Request \X Nat)
  <2>1. pend[s] \in Seq(Request \X Nat) /\ <<m.code, m.id>> \in Request \X Nat
    BY <1>1
  <2>. QED  BY <2>1, AppendProperties
<1>5. QueueTypes'
  BY <1>1, <1>2, <1>3 DEF QueueTypes
<1>6. pend' \in [Slot -> Seq(Request \X Nat)]
  BY <1>1, <1>2, <1>4
<1>7. ASSUME NEW t \in Slot
      PROVE  AskedFor(toPeer'[t], "ConnReq") /\ AskedFor(toDev'[t], "ConnRsp")
  <2>1. toDev'[t] = toDev[t] \/ toDev'[t] = Append(toDev[s], m)
    BY <1>1, <1>2
  <2>. QED  BY <1>1, <1>3, <2>1
<1>. QED  BY <1>5, <1>6, <1>7

LEMMA PeerReceived ==
    ASSUME IInv, NEW s \in Slot, NEW codes, Arrived(s, codes)
    PROVE  LET m == Head(toPeer[s])
           IN  /\ toPeer[s] # <<>> /\ m \in Message /\ m.code \in codes
               /\ m.code = "ConnReq" => m.scid \in Ours
<1>1. toPeer[s] \in Seq(Message) /\ toPeer[s] # <<>> /\ AskedFor(toPeer[s], "ConnReq")
  BY DEF IInv, TypeOK, Arrived, RequestsOurs, QueuesOurs
<1>2. Head(toPeer[s]) \in Message /\ toPeer[s][1] = Head(toPeer[s]) /\ 1 \in 1..Len(toPeer[s])
  BY <1>1, TailThenMore
<1>. QED  BY <1>1, <1>2 DEF Arrived, AskedFor

LEMMA Numbers ==
    ASSUME NEW s \in Slot, NEW own \in PeerNumbers(s)
    PROVE  own \in Nat /\ own % 100 \in 1..(L2CAP_CONN_POOL_SIZE + MaxRequests)
<1>1. PICK k \in 1..(L2CAP_CONN_POOL_SIZE + MaxRequests) : own = 100 * s + k
  BY DEF PeerNumbers
<1>2. s \in Nat /\ k \in Nat /\ k < 100
  BY <1>1, PoolAssumption, ChannelAssumption DEF Slot
<1>3. \A a, b \in Nat : b < 100 => 100 * a + b \in Nat /\ (100 * a + b) % 100 = b
  OBVIOUS
<1>. QED  BY <1>1, <1>2, <1>3

\* A peer has one channel more.
LEMMA Opened ==
    ASSUME IInv, NEW s \in Slot, NEW own \in Nat, NEW dev \in Nat,
           peer' = [peer EXCEPT ![s] = @ \cup {Open(own, dev)}]
    PROVE  peer' \in [Slot -> SUBSET PeerChannel]
<1>1. Open(own, dev) \in PeerChannel
  BY OptionTypes DEF Open, PeerChannel
<1>. QED  BY <1>1 DEF IInv, TypeOK

\* A peer changes the fields of a channel.
LEMMA Updated ==
    ASSUME IInv, NEW s \in Slot, NEW own, NEW new,
           new \in [PeerChannel -> PeerChannel],
           peer' = [peer EXCEPT ![s] = {IF c.own = own THEN new[c] ELSE c : c \in peer[s]}]
    PROVE  peer' \in [Slot -> SUBSET PeerChannel]
<1>1. peer \in [Slot -> SUBSET PeerChannel] /\ peer[s] \subseteq PeerChannel
  BY DEF IInv, TypeOK
<1>2. \A c \in peer[s] : (IF c.own = own THEN new[c] ELSE c) \in PeerChannel
  BY <1>1
<1>. QED  BY <1>1, <1>2

LEMMA NextId ==
    ASSUME IInv, NEW s \in Slot
    PROVE  NewId(s) \in Nat
<1>1. pend[s] \in Seq(Request \X Nat)
  BY DEF IInv, TypeOK
<1>2. CASE pend[s] = <<>>
  BY <1>2 DEF NewId
<1>3. CASE pend[s] # <<>>
  <2>1. pend[s][Len(pend[s])] \in Request \X Nat
    BY <1>1, <1>3, EmptySeq, LenProperties
  <2>. QED  BY <1>3, <2>1 DEF NewId
<1>. QED  BY <1>2, <1>3

LEMMA PeerConnectResponseStep ==
    ASSUME IInv, NEW s \in Slot, PeerConnectResponse(s), UNCHANGED <<device, up, left>>
    PROVE  IInv'
<1>. DEFINE m == Head(toPeer[s])
            reply(result, dcid) == ConnRsp(m.id, dcid, m.scid, result)
<1>1. /\ toPeer[s] # <<>> /\ m \in Message /\ m.code = "ConnReq" /\ m.scid \in Ours
      /\ m.id \in Nat /\ m.scid \in Nat /\ pend' = pend
  <2>1. /\ toPeer[s] # <<>> /\ m \in Message /\ m.code = "ConnReq" /\ m.scid \in Ours
    BY PeerReceived DEF PeerConnectResponse
  <2>. QED  BY <2>1, Fields DEF PeerConnectResponse
<1>2. ASSUME NEW result \in {"success", "pending", "refused"}, NEW dcid \in Nat
      PROVE  /\ reply(result, dcid) \in Message /\ reply(result, dcid).scid = m.scid
             /\ reply(result, dcid).code = "ConnRsp"
  BY <1>1, OptionTypes, Constructed DEF ConnRsp
<1>3. PICK result \in ConnectAnswers[s] :
         \/ /\ result = "refused"
            /\ Consume(s, <<reply(result, 0)>>)
            /\ UNCHANGED peer
         \/ /\ result # "refused"
            /\ \E own \in PeerNumbers(s) :
                 /\ IsNewNumber(s, own)
                 /\ peer' = [peer EXCEPT ![s] = @ \cup {Open(own, m.scid)}]
                 /\ Consume(s, (IF result = "pending" THEN <<reply(result, 0)>> ELSE <<>>)
                               \o <<reply("success", own)>>)
  BY DEF PeerConnectResponse
<1>4. result \in {"success", "pending", "refused"}
  BY AnswerAssumption
<1>5. ASSUME NEW msgs \in Seq(Message), AskedFor(msgs, "ConnRsp"), Consume(s, msgs),
             peer' \in [Slot -> SUBSET PeerChannel]
      PROVE  IInv'
  <2>1. /\ QueueTypes'
        /\ \A t \in Slot : AskedFor(toPeer'[t], "ConnReq") /\ AskedFor(toDev'[t], "ConnRsp")
    BY <1>1, <1>5, ConsumeStays
  <2>2. PeerTypes'
    BY <1>1, <1>5 DEF IInv, TypeOK, PeerTypes
  <2>. QED  BY <2>1, <2>2, DeviceKept
<1>6. ASSUME NEW a \in Message, a.scid = m.scid
      PROVE  <<a>> \in Seq(Message) /\ AskedFor(<<a>>, "ConnRsp")
  BY <1>1, <1>6 DEF AskedFor
<1>7. CASE result = "refused" /\ Consume(s, <<reply(result, 0)>>) /\ UNCHANGED peer
  <2>1. peer' \in [Slot -> SUBSET PeerChannel]
    BY <1>7 DEF IInv, TypeOK
  <2>2. reply(result, 0) \in Message /\ reply(result, 0).scid = m.scid
    BY <1>2, <1>4
  <2>. HIDE DEF reply
  <2>. QED  BY <1>5, <1>6, <1>7, <2>1, <2>2
<1>8. ASSUME NEW own \in PeerNumbers(s),
             peer' = [peer EXCEPT ![s] = @ \cup {Open(own, m.scid)}],
             Consume(s, (IF result = "pending" THEN <<reply(result, 0)>> ELSE <<>>)
                        \o <<reply("success", own)>>)
      PROVE  IInv'
  <2>1. own \in Nat
    BY Numbers
  <2>2. peer' \in [Slot -> SUBSET PeerChannel]
    BY <1>1, <1>8, <2>1, Opened
  <2>3. /\ reply(result, 0) \in Message /\ reply(result, 0).scid = m.scid
        /\ reply("success", own) \in Message /\ reply("success", own).scid = m.scid
    BY <1>2, <1>4, <2>1
  <2>. HIDE DEF reply
  <2>4. PICK before : before = IF result = "pending" THEN <<reply(result, 0)>> ELSE <<>>
    OBVIOUS
  <2>5. before \in Seq(Message) /\ AskedFor(before, "ConnRsp")
    <3>1. <<>> \in Seq(Message) /\ AskedFor(<<>>, "ConnRsp")
      BY DEF AskedFor
    <3>. QED  BY <1>6, <2>3, <2>4, <3>1
  <2>6. /\ <<reply("success", own)>> \in Seq(Message)
        /\ AskedFor(<<reply("success", own)>>, "ConnRsp")
    BY <1>6, <2>3
  <2>7. /\ before \o <<reply("success", own)>> \in Seq(Message)
        /\ AskedFor(before \o <<reply("success", own)>>, "ConnRsp")
    BY <2>5, <2>6, AskedForMore, ConcatProperties
  <2>8. Consume(s, before \o <<reply("success", own)>>)
    BY <1>8, <2>4
  <2>. QED  BY <1>5, <2>2, <2>7, <2>8
<1>. QED  BY <1>3, <1>7, <1>8

\* Whatever else a peer does with a message, it answers with no "ConnRsp".
LEMMA PeerHandlerStays ==
    ASSUME IInv, NEW s \in Slot, toPeer[s] # <<>>, UNCHANGED <<device, up, left>>,
           NEW msgs \in Seq(Message), AskedFor(msgs, "ConnRsp"), Consume(s, msgs),
           pend' \in [Slot -> Seq(Request \X Nat)], peer' \in [Slot -> SUBSET PeerChannel]
    PROVE  IInv'
<1>1. PeerTypes'
  BY DEF IInv, TypeOK, PeerTypes
<1>. QED  BY <1>1, ConsumeStays, DeviceKept

LEMMA PeerConfigureResponseStep ==
    ASSUME IInv, NEW s \in Slot, PeerConfigureResponse(s), UNCHANGED <<device, up, left>>
    PROVE  IInv'
<1>. DEFINE m == Head(toPeer[s])
<1>1. /\ toPeer[s] # <<>> /\ m \in Message /\ m.code = "ConfReq" /\ m.id \in Nat
      /\ UNCHANGED <<peer, pend>>
  <2>1. toPeer[s] # <<>> /\ m \in Message /\ m.code = "ConfReq"
    BY PeerReceived DEF PeerConfigureResponse
  <2>. QED  BY <2>1, Fields DEF PeerConfigureResponse
<1>2. \E a \in Message : a.code # "ConnRsp" /\ Consume(s, <<a>>)
  <2>1. CASE \E c \in peer[s], r \in ConfigAnswers[s] :
                 Consume(s, <<ConfRsp(m.id, c.dev, r.result, r.opt)>>)
    <3>1. PICK c \in peer[s], r \in ConfigAnswers[s] :
             Consume(s, <<ConfRsp(m.id, c.dev, r.result, r.opt)>>)
      BY <2>1
    <3>2. c.dev \in Nat
      BY DEF IInv, TypeOK, PeerChannel
    <3>3. r.result \in {"success", "rejected"} /\ r.opt \in Options
      BY AnswerAssumption
    <3>4. ConfRsp(m.id, c.dev, r.result, r.opt) \in Message
      BY <1>1, <3>2, <3>3, Constructed
    <3>5. ConfRsp(m.id, c.dev, r.result, r.opt).code # "ConnRsp"
      BY DEF ConfRsp
    <3>. QED  BY <3>1, <3>4, <3>5
  <2>2. CASE Consume(s, <<Bare("Reject", m.id)>>)
    <3>1. Bare("Reject", m.id) \in Message /\ Bare("Reject", m.id).code # "ConnRsp"
      BY <1>1, OptionTypes, Constructed DEF Bare
    <3>. QED  BY <2>2, <3>1
  <2>. QED  BY <2>1, <2>2 DEF PeerConfigureResponse
<1>3. PICK a \in Message : a.code # "ConnRsp" /\ Consume(s, <<a>>)
  BY <1>2
<1>4. <<a>> \in Seq(Message) /\ AskedFor(<<a>>, "ConnRsp")
  BY <1>3 DEF AskedFor
<1>5. /\ pend' \in [Slot -> Seq(Request \X Nat)] /\ peer' \in [Slot -> SUBSET PeerChannel]
  BY <1>1 DEF IInv, TypeOK
<1>. QED  BY <1>1, <1>3, <1>4, <1>5, PeerHandlerStays

LEMMA NothingSent == <<>> \in Seq(Message) /\ AskedFor(<<>>, "ConnRsp")
BY DEF AskedFor

LEMMA PeerAnsweredStep ==
    ASSUME IInv, NEW s \in Slot, PeerAnswered(s), UNCHANGED <<device, up, left>>
    PROVE  IInv'
<1>. DEFINE m == Head(toPeer[s])
            adopt(c) == [mtu |-> IF m.opt.mtu = "none" THEN c.opt.mtu ELSE m.opt.mtu,
                         fto |-> IF m.opt.fto = "none" THEN c.opt.fto ELSE m.opt.fto]
            changed(c) ==
                IF m.code = "ConnRsp" THEN [c EXCEPT !.dev = m.dcid]
                ELSE IF c.cfg # "sent" THEN c
                ELSE IF m.result = "success" THEN [c EXCEPT !.cfg = "done"]
                ELSE [c EXCEPT !.cfg = IF adopt(c) = c.opt THEN "failed" ELSE "refused",
                               !.opt = adopt(c)]
<1>1. /\ toPeer[s] # <<>> /\ m \in Message /\ Consume(s, <<>>)
      /\ pend' = [pend EXCEPT ![s] = Tail(pend[s])]
  BY PeerReceived DEF PeerAnswered
<1>2. pend' \in [Slot -> Seq(Request \X Nat)]
  <2>1. pend[s] \in Seq(Request \X Nat) /\ pend[s] # <<>>
    BY DEF IInv, TypeOK, PeerAnswered
  <2>2. Tail(pend[s]) \in Seq(Request \X Nat)
    BY <2>1, TailThenMore
  <2>. QED  BY <1>1, <2>2 DEF IInv, TypeOK
<1>3. peer' \in [Slot -> SUBSET PeerChannel]
  <2>1. CASE m.code \in {"ConnRsp", "ConfRsp"}
    <3>1. peer' = [peer EXCEPT ![s] = {IF c.own = m.scid THEN changed(c) ELSE c : c \in peer[s]}]
      BY <2>1 DEF PeerAnswered, Update
    <3>2. ASSUME NEW c \in PeerChannel PROVE changed(c) \in PeerChannel
      <4>1. CASE m.code = "ConnRsp"
        <5>1. m.dcid \in Nat
          BY <1>1, <4>1, Fields
        <5>2. changed(c) = [c EXCEPT !.dev = m.dcid]
          BY <4>1
        <5>. QED  BY <5>1, <5>2 DEF PeerChannel
      <4>2. CASE m.code = "ConfRsp"
        <5>1. m.opt \in Options
          BY <1>1, <4>2, Fields
        <5>2. adopt(c) \in Options
          BY <5>1 DEF Options, PeerChannel
        <5>. HIDE DEF adopt
        <5>. QED  BY <4>2, <5>2 DEF PeerChannel
      <4>. QED  BY <2>1, <4>1, <4>2
    <3>3. PICK new : new = [c \in PeerChannel |-> changed(c)]
      BY ZenonT(40)
    <3>4. new \in [PeerChannel -> PeerChannel] /\ \A c \in PeerChannel : new[c] = changed(c)
      BY <3>2, <3>3
    <3>. HIDE DEF changed
    <3>5. \A c \in peer[s] : changed(c) = new[c]
      BY <3>4 DEF IInv, TypeOK
    <3>6. PICK own : own = m.scid
      OBVIOUS
    <3>7. peer' = [peer EXCEPT ![s] = {IF c.own = own THEN new[c] ELSE c : c \in peer[s]}]
      BY <3>1, <3>5, <3>6
    <3>. HIDE DEF m
    <3>. QED  BY <3>4, <3>7, Updated, SMTT(30)
  <2>2. CASE m.code \notin {"ConnRsp", "ConfRsp"}
    BY <2>2 DEF PeerAnswered, IInv, TypeOK
  <2>. QED  BY <2>1, <2>2
<1>. QED  BY <1>1, <1>2, <1>3, NothingSent, PeerHandlerStays

LEMMA PeerSabmStep ==
    ASSUME IInv, NEW s \in Slot, PeerSabm(s), UNCHANGED <<device, up, left>>
    PROVE  IInv'
<1>1. toPeer[s] # <<>> /\ Consume(s, <<>>) /\ UNCHANGED <<peer, pend>>
  BY PeerReceived DEF PeerSabm
<1>2. /\ pend' \in [Slot -> Seq(Request \X Nat)] /\ peer' \in [Slot -> SUBSET PeerChannel]
  BY <1>1 DEF IInv, TypeOK
<1>. QED  BY <1>1, <1>2, NothingSent, PeerHandlerStays

\* A peer asks something and changes the state of its channels.
LEMMA AskerStays ==
    ASSUME IInv, NEW s \in Slot, NEW m \in Message, m.code \in Request, m.id \in Nat, Ask(s, m), UNCHANGED <<device, up, toPeer>>,
           peer' \in [Slot -> SUBSET PeerChannel],
           left' \in [{"links", "requests"} -> Nat]
    PROVE  IInv'
<1>1. /\ QueueTypes' /\ pend' \in [Slot -> Seq(Request \X Nat)]
      /\ \A t \in Slot : AskedFor(toPeer'[t], "ConnReq") /\ AskedFor(toDev'[t], "ConnRsp")
  BY AskStays
<1>2. PeerTypes'
  BY <1>1 DEF IInv, TypeOK, PeerTypes
<1>. QED  BY <1>1, <1>2, DeviceKept

LEMMA PeerConnectStep ==
    ASSUME IInv, NEW s \in Slot, PeerConnect(s)
    PROVE  IInv'
<1>1. PICK own \in PeerNumbers(s) :
         /\ peer' = [peer EXCEPT ![s] = @ \cup {Open(own, 0)}]
         /\ Ask(s, ConnReq(NewId(s), own))
  BY DEF PeerConnect
<1>2. own \in Nat /\ NewId(s) \in Nat
  BY Numbers, NextId
<1>3. left' \in [{"links", "requests"} -> Nat] /\ UNCHANGED <<device, up, toPeer>>
  BY Spent DEF PeerConnect
<1>4. peer' \in [Slot -> SUBSET PeerChannel]
  BY <1>1, <1>2, Opened
<1>5. ConnReq(NewId(s), own) \in Message
  BY <1>2, OptionTypes, Constructed
<1>6. PICK m : m = ConnReq(NewId(s), own)
  OBVIOUS
<1>7. m \in Message /\ m.code \in Request /\ m.id \in Nat
  BY <1>2, <1>5, <1>6 DEF ConnReq, Request
<1>8. Ask(s, m)
  BY <1>1, <1>6
<1>. QED  BY <1>3, <1>4, <1>7, <1>8, AskerStays

LEMMA PeerConfigureStep ==
    ASSUME IInv, NEW s \in Slot, NEW own \in PeerNumbers(s), PeerConfigure(s, own)
    PROVE  IInv'
<1>. DEFINE sent(d, opt) == [d EXCEPT !.cfg = "sent", !.opt = opt]
            After(opt) == {IF d.own = own THEN sent(d, opt) ELSE d : d \in peer[s]}
<1>1. PICK c \in peer[s], opt \in Options :
         /\ Ask(s, ConfReq(NewId(s), c.dev, opt))
         /\ peer' = [peer EXCEPT ![s] = After(opt)]
  <2>1. PICK c \in peer[s] :
           \E opt \in IF c.cfg = "new" THEN ProposedOptions[own % 100] ELSE {c.opt} :
              /\ Ask(s, ConfReq(NewId(s), c.dev, opt))
              /\ peer' = [peer EXCEPT ![s] = After(opt)]
    BY DEF PeerConfigure, Update
  <2>2. c \in PeerChannel
    BY DEF IInv, TypeOK
  <2>3. ProposedOptions[own % 100] \subseteq Options /\ c.opt \in Options
    <3>1. own % 100 \in 1..(L2CAP_CONN_POOL_SIZE + MaxRequests)
      BY Numbers
    <3>. QED  BY <2>2, <3>1, AnswerAssumption DEF PeerChannel
  <2>4. (IF c.cfg = "new" THEN ProposedOptions[own % 100] ELSE {c.opt}) \subseteq Options
    BY <2>3
  <2>. HIDE DEF After
  <2>. QED  BY <2>1, <2>4
<1>2. NewId(s) \in Nat /\ c.dev \in Nat
  BY NextId DEF IInv, TypeOK, PeerChannel
<1>3. UNCHANGED <<device, up, toPeer>> /\ left' \in [{"links", "requests"} -> Nat]
  BY DEF PeerConfigure, IInv, TypeOK
<1>4. peer' \in [Slot -> SUBSET PeerChannel]
  <2>1. PICK new : new = [d \in PeerChannel |-> sent(d, opt)]
    OBVIOUS
  <2>2. ASSUME NEW d \in PeerChannel PROVE sent(d, opt) \in PeerChannel
    BY DEF PeerChannel
  <2>. HIDE DEF sent
  <2>3. new \in [PeerChannel -> PeerChannel]
    BY <2>1, <2>2
  <2>4. \A d \in peer[s] : new[d] = sent(d, opt)
    BY <2>1 DEF IInv, TypeOK
  <2>5. peer' = [peer EXCEPT ![s] = {IF d.own = own THEN new[d] ELSE d : d \in peer[s]}]
    BY <1>1, <2>4
  <2>. QED  BY <2>3, <2>5, Updated
<1>5. ConfReq(NewId(s), c.dev, opt) \in Message
  BY <1>2, Constructed
<1>6. PICK m : m = ConfReq(NewId(s), c.dev, opt)
  OBVIOUS
<1>7. m \in Message /\ m.code \in Request /\ m.id \in Nat
  BY <1>2, <1>5, <1>6 DEF ConfReq, Request
<1>8. Ask(s, m)
  BY <1>1, <1>6
<1>. QED  BY <1>3, <1>4, <1>7, <1>8, AskerStays

LEMMA PeerDisconnectStep ==
    ASSUME IInv, NEW s \in Slot, PeerDisconnect(s)
    PROVE  IInv'
<1>. DEFINE closed(d) == [d EXCEPT !.cfg = "closed"]
<1>1. PICK c \in peer[s] :
         /\ Ask(s, DiscReq(NewId(s), c.dev, c.own))
         /\ peer' = [peer EXCEPT ![s] =
               {IF d.own = c.own THEN closed(d) ELSE d : d \in peer[s]}]
  BY DEF PeerDisconnect, Update
<1>2. NewId(s) \in Nat /\ c.dev \in Nat /\ c.own \in Nat
  BY NextId, SMTT(30) DEF IInv, TypeOK, PeerChannel
<1>3. left' \in [{"links", "requests"} -> Nat] /\ UNCHANGED <<device, up, toPeer>>
  BY Spent DEF PeerDisconnect
<1>4. peer' \in [Slot -> SUBSET PeerChannel]
  <2>1. PICK new, own : new = [d \in PeerChannel |-> closed(d)] /\ own = c.own
    OBVIOUS
  <2>2. ASSUME NEW d \in PeerChannel PROVE closed(d) \in PeerChannel
    BY DEF PeerChannel
  <2>. HIDE DEF closed
  <2>3. new \in [PeerChannel -> PeerChannel]
    BY <2>1, <2>2
  <2>4. \A d \in peer[s] : new[d] = closed(d)
    BY <2>1 DEF IInv, TypeOK
  <2>5. peer' = [peer EXCEPT ![s] = {IF d.own = own THEN new[d] ELSE d : d \in peer[s]}]
    BY <1>1, <2>1, <2>4
  <2>. QED  BY <2>3, <2>5, Updated
<1>5. DiscReq(NewId(s), c.dev, c.own) \in Message
  BY <1>2, OptionTypes, Constructed
<1>6. PICK m : m = DiscReq(NewId(s), c.dev, c.own)
  OBVIOUS
<1>7. m \in Message /\ m.code \in Request /\ m.id \in Nat
  BY <1>2, <1>5, <1>6 DEF DiscReq, Request
<1>8. Ask(s, m)
  BY <1>1, <1>6
<1>. QED  BY <1>3, <1>4, <1>7, <1>8, AskerStays

LEMMA PeerPingStep ==
    ASSUME IInv, NEW s \in Slot, PeerPing(s)
    PROVE  IInv'
<1>1. PICK code \in {"EchoReq", "InfoReq"} : Ask(s, Bare(code, NewId(s)))
  BY DEF PeerPing
<1>2. NewId(s) \in Nat
  BY NextId
<1>3. /\ left' \in [{"links", "requests"} -> Nat] /\ UNCHANGED <<device, up, toPeer>>
      /\ peer' \in [Slot -> SUBSET PeerChannel]
  BY Spent DEF PeerPing, IInv, TypeOK
<1>4. Bare(code, NewId(s)) \in Message
  BY <1>2, OptionTypes, Constructed
<1>5. PICK m : m = Bare(code, NewId(s))
  OBVIOUS
<1>6. m \in Message /\ m.code \in Request /\ m.id \in Nat
  BY <1>2, <1>4, <1>5 DEF Bare, Request
<1>7. Ask(s, m)
  BY <1>1, <1>5
<1>. QED  BY <1>3, <1>6, <1>7, AskerStays

-----------------------------------------------------------------------------
(* Types and channel numbers                                                 *)

LEMMA InitIInv == Init => IInv
<1>. SUFFICES ASSUME Init PROVE IInv
  OBVIOUS
<1>1. /\ heap \in Heap /\ heap.head[l2cap_empty_pool] = 1
      /\ \A e \in Entry : heap.next[e] = IF e = N THEN NULL ELSE e + 1
  <2>1. /\ 1 \in Node /\ NULL \in Node /\ l2cap_empty_pool \in Pool
        /\ \A e \in Entry : e - 1 \in Node /\ (e # N => e + 1 \in Node)
    BY PoolAssumption DEF Node, Entry, NULL, N, Pool
  <2>2. /\ init_pool.head \in [Pool -> Node] /\ init_pool.head[l2cap_empty_pool] = 1
    BY <2>1 DEF init_pool
  <2>3. init_pool.next \in [Entry -> Node] /\ init_pool.prev \in [Entry -> Node]
    BY <2>1 DEF init_pool, N
  <2>4. init_pool \in Heap
    BY <2>2, <2>3 DEF init_pool, Heap
  <2>5. \A e \in Entry : init_pool.next[e] = IF e = N THEN NULL ELSE e + 1
    BY DEF init_pool, N
  <2>. QED  BY <2>2, <2>4, <2>5 DEF Init
<1>2. chan \in [Entry -> Channel] /\ \A e \in Entry : chan[e].connect_initiate = ""
  <2>1. [cid |-> 0, dcid |-> 0, connect_initiate |-> "", conf_opt |-> NoOptions] \in Channel
    BY OptionTypes, ChannelAssumption DEF Channel
  <2>. QED  BY <2>1 DEF Init
<1>3. TypeOK
  <2>1. /\ MIN_L2CAP_CID \in MIN_L2CAP_CID..MAX_L2CAP_CID
        /\ 0 \in 0..(SIG_ID_SIZE - 1) /\ 0 \in 0..MAX_L2CAP_CID
    BY PoolAssumption, ChannelAssumption
  <2>2. [links |-> MaxLinks, requests |-> MaxRequests] \in [{"links", "requests"} -> Nat]
    BY ChannelAssumption
  <2>3. /\ [s \in Slot |-> FALSE] \in [Slot -> BOOLEAN]
        /\ [s \in Slot |-> <<>>] \in [Slot -> Seq(Message)]
        /\ [s \in Slot |-> <<>>] \in [Slot -> Seq(Request \X Nat)]
        /\ [s \in Slot |-> {}] \in [Slot -> SUBSET PeerChannel]
    OBVIOUS
  <2>. QED  BY <1>1, <1>2, <2>1, <2>2, <2>3 DEF Init, TypeOK
<1>4. \A e \in Entry : ~Taken(e)
  BY <1>1, PoolAssumption DEF Taken, Entry, NULL
<1>5. l2cap_cur_cid = MIN_L2CAP_CID + heap.head[l2cap_empty_pool] - 1
  <2>1. l2cap_cur_cid = MIN_L2CAP_CID
    BY DEF Init
  <2>2. MIN_L2CAP_CID = MIN_L2CAP_CID + 1 - 1
    BY ChannelAssumption
  <2>. QED  BY <1>1, <2>1, <2>2
<1>6. PoolInOrder
  BY <1>1, <1>2, <1>4, <1>5 DEF PoolInOrder
<1>7. RequestsOurs
  <2>1. \A s \in Slot : toPeer[s] = <<>> /\ toDev[s] = <<>>
    BY DEF Init
  <2>2. \A code : AskedFor(<<>>, code)
    BY DEF AskedFor
  <2>3. TmpOurs
    BY DEF Init, TmpOurs
  <2>. QED  BY <2>1, <2>2, <2>3 DEF RequestsOurs, QueuesOurs
<1>. QED  BY <1>3, <1>6, <1>7 DEF IInv

LEMMA NextIInv == IInv /\ [Next]_vars => IInv'
<1>. SUFFICES ASSUME IInv, [Next]_vars PROVE IInv'
  OBVIOUS
<1>1. CASE rfcomm_connect_request
  BY <1>1, ButtonStep
<1>2. ASSUME NEW s \in Slot, LinkUp(s) PROVE IInv'
  BY <1>2, LinkUpStep
<1>3. ASSUME NEW s \in Slot, LinkDown(s) PROVE IInv'
  BY <1>3, LinkDownStep
<1>4. ASSUME NEW s \in Slot, Receive(s) PROVE IInv'
  BY <1>4, ConnectionRequestStep, ConnectionResponseStep, ConfigurationRequestStep,
     ConfigurationResponseStep, AnswererStep DEF Receive
<1>5. ASSUME NEW s \in Slot, PeerReceive(s) PROVE IInv'
  BY <1>5, PeerConnectResponseStep, PeerConfigureResponseStep, PeerAnsweredStep, PeerSabmStep
     DEF PeerReceive
<1>6. ASSUME NEW s \in Askers, PeerConnect(s) \/ PeerDisconnect(s) \/ PeerPing(s)
      PROVE  IInv'
  BY <1>6, ChannelAssumption, PeerConnectStep, PeerDisconnectStep, PeerPingStep
<1>7. ASSUME NEW s \in Askers, NEW own \in PeerNumbers(s), PeerConfigure(s, own)
      PROVE  IInv'
  BY <1>7, ChannelAssumption, PeerConfigureStep
<1>8. CASE UNCHANGED vars
  <2>1. UNCHANGED device /\ UNCHANGED <<up, toPeer, toDev, peer, pend, left>>
    BY <1>8 DEF vars, device
  <2>2. QueueTypes' /\ PeerTypes'
    BY <2>1 DEF IInv, TypeOK, QueueTypes, PeerTypes
  <2>3. \A s \in Slot : AskedFor(toPeer'[s], "ConnReq") /\ AskedFor(toDev'[s], "ConnRsp")
    BY <2>1 DEF IInv, RequestsOurs, QueuesOurs
  <2>. QED  BY <2>1, <2>2, <2>3, DeviceKept
<1>. QED  BY <1>1, <1>2, <1>3, <1>4, <1>5, <1>6, <1>7, <1>8 DEF Next

\* The entry tells the number: two entries in use never have the same.
LEMMA Distinct == IInv => ChannelIdsDistinct
<1>. SUFFICES ASSUME IInv, NEW d \in Used, NEW e \in Used, chan[d].cid = chan[e].cid
              PROVE  d = e
  BY DEF ChannelIdsDistinct
<1>1. d \in Entry /\ e \in Entry /\ Taken(d) /\ Taken(e)
  BY DEF Used, IInv, PoolInOrder
<1>2. MIN_L2CAP_CID + d = MIN_L2CAP_CID + e
  BY <1>1 DEF IInv, PoolInOrder
<1>. QED  BY <1>1, <1>2, ChannelAssumption, PoolAssumption DEF Entry

LEMMA TmpNames == IInv => TmpChidNamesChannel
<1>. SUFFICES ASSUME IInv, tmp_chid # 0 PROVE TmpChidNamesChannel
  BY DEF TmpChidNamesChannel
<1>1. PICK e \in Entry : chan[e].cid = tmp_chid /\ chan[e].connect_initiate = "LOCAL"
  BY DEF IInv, RequestsOurs, TmpOurs, Ours
<1>2. e \in Used
  BY <1>1 DEF Used
<1>3. tmp_chid = MIN_L2CAP_CID + e
  BY <1>1 DEF IInv, PoolInOrder
<1>4. tmp_chid % CHID_SIZE = tmp_chid
  <2>1. \A k \in Entry : /\ MIN_L2CAP_CID + k \in Nat /\ MIN_L2CAP_CID + k < CHID_SIZE
    BY ChannelAssumption, PoolAssumption DEF Entry
  <2>2. \A x \in Nat : x < CHID_SIZE => x % CHID_SIZE = x
    BY ChannelAssumption
  <2>. QED  BY <1>3, <2>1, <2>2
<1>. QED  BY <1>1, <1>2, <1>4 DEF TmpChidNamesChannel

\* L2CAP signalling keeps its types, whatever the peers ask and answer.
THEOREM TypeCorrect == Spec => []TypeOK
<1>1. IInv => TypeOK
  BY DEF IInv
<1>. QED  BY <1>1, InitIInv, NextIInv, PTL DEF Spec

\* No two channel entries ever have the same channel number, for any number of
\* links, of entries and of numbers.
THEOREM IdsDistinct == Spec => []ChannelIdsDistinct
BY InitIInv, NextIInv, Distinct, PTL DEF Spec

\* tmp_chid is 0 or the number of a channel the device asked for, and the octet
\* of btdev.c holds it, whatever links come up and answers arrive in between.
THEOREM TmpChidSafe == Spec => []TmpChidNamesChannel
BY InitIInv, NextIInv, TmpNames, PTL DEF Spec

-----------------------------------------------------------------------------
(* Induction over the natural numbers                                        *)

\* A set of natural numbers with an element has a least one.
LEMMA LeastExists ==
    ASSUME NEW S, S \subseteq Nat, S # {}
    PROVE  \E m \in S : \A n \in S : m <= n
<1>. DEFINE R == {ss \in Nat \X Nat : ss[1] < ss[2]}
<1>1. IsWellFoundedOn(R, Nat)
  BY NatLessThanWellFounded DEF OpToRel
<1>2. \A y, x \in Nat : ~(<<y, x>> \in R) => x <= y
  OBVIOUS
<1>. HIDE DEF R
<1>3. PICK x \in S : \A y \in S : ~(<<y, x>> \in R)
  BY <1>1, WFMin
<1>4. ASSUME NEW y \in S PROVE x <= y
  <2>1. x \in Nat /\ y \in Nat /\ ~(<<y, x>> \in R)
    BY <1>3
  <2>. QED  BY <1>2, <2>1, Zenon
<1>. QED  BY <1>4

\* Induction, stated for a set so that it needs no operator parameter.
LEMMA SetInduction ==
    ASSUME NEW S, 0 \in S, \A n \in Nat : n \in S => n + 1 \in S
    PROVE  Nat \subseteq S
<1>. SUFFICES ASSUME Nat \ S # {} PROVE FALSE
  OBVIOUS
<1>1. PICK m \in Nat \ S : \A n \in Nat \ S : m <= n
  BY LeastExists
<1>2. m # 0 /\ m - 1 \in Nat /\ m - 1 \notin Nat \ S
  BY <1>1
<1>3. m = (m - 1) + 1 /\ m - 1 \in S
  BY <1>2
<1>. QED  BY <1>2, <1>3

-----------------------------------------------------------------------------
(* What a queue contains of requests and of responses                        *)

\* The exchanges there can be.
Exchanged == {Exchange(m) : m \in Message}

\* upto is the function behind Exchanges, for the first n messages of q.
IsUpto(upto, q, codes, n) ==
    upto = [k \in 0..n |-> IF k = 0 THEN <<>>
                           ELSE IF q[k].code \in codes THEN Append(upto[k - 1], Exchange(q[k]))
                           ELSE upto[k - 1]]

Upto(q, codes) == CHOOSE upto : IsUpto(upto, q, codes, Len(q))

LEMMA UptoExists ==
    ASSUME NEW q, NEW codes, Len(q) \in Nat
    PROVE  IsUpto(Upto(q, codes), q, codes, Len(q))
<1>. DEFINE S == {n \in Nat : \E upto : IsUpto(upto, q, codes, n)}
            next(k, prev) == IF k = 0 THEN <<>>
                             ELSE IF q[k].code \in codes THEN Append(prev, Exchange(q[k]))
                             ELSE prev
<1>1. 0 \in S
  <2>. DEFINE u == [k \in 0..0 |-> <<>>]
  <2>1. u = [k \in 0..0 |-> next(k, u[k - 1])]
    OBVIOUS
  <2>. QED  BY <2>1 DEF IsUpto
<1>2. ASSUME NEW n \in Nat, n \in S PROVE n + 1 \in S
  <2>1. PICK g : IsUpto(g, q, codes, n)
    BY <1>2
  <2>. DEFINE new == [k \in 0..(n + 1) |-> IF k = n + 1 THEN next(n + 1, g[n]) ELSE g[k]]
  <2>2. \A k \in 0..n : g[k] = next(k, g[k - 1])
    BY <2>1 DEF IsUpto
  <2>3. \A k \in 0..n : new[k] = g[k]
    OBVIOUS
  <2>4. ASSUME NEW k \in 0..(n + 1) PROVE new[k] = next(k, new[k - 1])
    <3>1. CASE k = n + 1
      <4>1. k - 1 = n /\ n \in 0..n
        BY <3>1
      <4>2. new[k] = next(k, g[n])
        BY <3>1
      <4>3. new[k - 1] = g[n]
        BY <2>3, <4>1
      <4>. HIDE DEF new, next
      <4>. QED  BY <4>2, <4>3
    <3>2. CASE k = 0
      <4>1. new[k] = g[k] /\ k \in 0..n
        BY <3>2, <2>3
      <4>2. \A x, y : next(0, x) = next(0, y)
        OBVIOUS
      <4>. HIDE DEF new, next
      <4>. QED  BY <3>2, <4>1, <4>2, <2>2
    <3>3. CASE k \in 1..n
      <4>1. new[k] = g[k] /\ k \in 0..n /\ k - 1 \in 0..n
        BY <3>3, <2>3
      <4>2. new[k - 1] = g[k - 1]
        BY <4>1, <2>3
      <4>. HIDE DEF new, next
      <4>. QED  BY <4>1, <4>2, <2>2
    <3>4. k = n + 1 \/ k = 0 \/ k \in 1..n
      OBVIOUS
    <3>. HIDE DEF new, next
    <3>. QED  BY <3>1, <3>2, <3>3, <3>4
  <2>5. new = [k \in 0..(n + 1) |-> next(k, new[k - 1])]
    <3>1. new = [k \in 0..(n + 1) |-> new[k]]
      OBVIOUS
    <3>. HIDE DEF new, next
    <3>. QED  BY <2>4, <3>1
  <2>6. IsUpto(new, q, codes, n + 1)
    <3>. HIDE DEF new
    <3>. QED  BY <2>5 DEF IsUpto
  <2>. QED  BY <2>6
<1>3. Nat \subseteq S
  <2>. HIDE DEF S
  <2>. QED  BY <1>1, <1>2, SetInduction
<1>4. \E upto : IsUpto(upto, q, codes, Len(q))
  BY <1>3
<1>. QED  BY <1>4 DEF Upto

LEMMA ExchangesIsUpto ==
    ASSUME NEW q, NEW codes
    PROVE  Exchanges(q, codes) = Upto(q, codes)[Len(q)]
BY Zenon DEF Exchanges, Upto, IsUpto

LEMMA UptoStep ==
    ASSUME NEW q \in Seq(Message), NEW codes
    PROVE  /\ Upto(q, codes)[0] = <<>>
           /\ \A k \in 1..Len(q) :
                 Upto(q, codes)[k] = IF q[k].code \in codes
                                       THEN Append(Upto(q, codes)[k - 1], Exchange(q[k]))
                                       ELSE Upto(q, codes)[k - 1]
<1>. DEFINE u == Upto(q, codes)
<1>1. Len(q) \in Nat
  BY LenProperties
<1>2. u = [k \in 0..Len(q) |-> IF k = 0 THEN <<>>
                            ELSE IF q[k].code \in codes THEN Append(u[k - 1], Exchange(q[k]))
                            ELSE u[k - 1]]
  BY <1>1, UptoExists DEF IsUpto
<1>. HIDE DEF u
<1>3. 0 \in 0..Len(q) /\ \A k \in 1..Len(q) : k \in 0..Len(q) /\ k # 0
  BY <1>1
<1>4. /\ u[0] = <<>>
      /\ \A k \in 1..Len(q) : u[k] = IF q[k].code \in codes
                                     THEN Append(u[k - 1], Exchange(q[k]))
                                     ELSE u[k - 1]
  BY <1>2, <1>3
<1>. QED  BY <1>4 DEF u

LEMMA UptoTyped ==
    ASSUME NEW q \in Seq(Message), NEW codes
    PROVE  \A k \in 0..Len(q) : Upto(q, codes)[k] \in Seq(Exchanged)
<1>. DEFINE u == Upto(q, codes)
            S == {k \in Nat : k <= Len(q) => u[k] \in Seq(Exchanged)}
<1>1. Len(q) \in Nat /\ \A k \in 1..Len(q) : q[k] \in Message
  BY LenProperties, ElementOfSeq
<1>2. /\ u[0] = <<>>
      /\ \A k \in 1..Len(q) : u[k] = IF q[k].code \in codes THEN Append(u[k - 1], Exchange(q[k]))
                                                            ELSE u[k - 1]
  BY UptoStep
<1>. HIDE DEF u
<1>3. 0 \in S
  <2>1. <<>> \in Seq(Exchanged)
    BY EmptySeq
  <2>. QED  BY <1>2, <2>1
<1>4. ASSUME NEW n \in Nat, n \in S PROVE n + 1 \in S
  <2>1. CASE n + 1 <= Len(q)
    <3>1. n + 1 \in 1..Len(q) /\ (n + 1) - 1 = n /\ u[n] \in Seq(Exchanged)
      BY <1>1, <1>4, <2>1
    <3>2. Exchange(q[n + 1]) \in Exchanged
      BY <1>1, <3>1 DEF Exchanged
    <3>3. Append(u[n], Exchange(q[n + 1])) \in Seq(Exchanged)
      BY <3>1, <3>2, AppendProperties
    <3>4. u[n + 1] = IF q[n + 1].code \in codes THEN Append(u[n], Exchange(q[n + 1])) ELSE u[n]
      BY <1>2, <3>1
    <3>5. u[n + 1] \in Seq(Exchanged)
      BY <3>1, <3>3, <3>4
    <3>. QED  BY <3>5
  <2>2. CASE ~(n + 1 <= Len(q))
    BY <2>2
  <2>. QED  BY <2>1, <2>2
<1>5. Nat \subseteq S
  <2>. HIDE DEF S
  <2>. QED  BY <1>3, <1>4, SetInduction
<1>6. \A k \in 0..Len(q) : u[k] \in Seq(Exchanged)
  BY <1>1, <1>5
<1>. QED  BY <1>6 DEF u

LEMMA ExchangesTyped ==
    ASSUME NEW q \in Seq(Message), NEW codes
    PROVE  Exchanges(q, codes) \in Seq(Exchanged)
<1>1. Len(q) \in 0..Len(q)
  BY LenProperties
<1>. QED  BY <1>1, UptoTyped, ExchangesIsUpto

LEMMA ConcatStep ==
    ASSUME NEW S, NEW a \in Seq(S), NEW b \in Seq(S), NEW e \in S
    PROVE  a \o Append(b, e) = Append(a \o b, e)
<1>1. /\ Append(b, e) \in Seq(S) /\ Len(Append(b, e)) = Len(b) + 1
      /\ \A k \in 1..Len(b) : Append(b, e)[k] = b[k]
      /\ Append(b, e)[Len(b) + 1] = e
  BY AppendProperties
<1>2. /\ a \o b \in Seq(S) /\ Len(a \o b) = Len(a) + Len(b)
      /\ \A k \in 1..(Len(a) + Len(b)) : (a \o b)[k] = IF k <= Len(a) THEN a[k] ELSE b[k - Len(a)]
  BY ConcatProperties
<1>3. PICK c, d : c = Append(b, e) /\ d = a \o b
  OBVIOUS
<1>4. /\ a \o c \in Seq(S) /\ Len(a \o c) = Len(a) + Len(c)
      /\ \A k \in 1..(Len(a) + Len(c)) : (a \o c)[k] = IF k <= Len(a) THEN a[k] ELSE c[k - Len(a)]
  BY <1>1, <1>3, ConcatProperties
<1>5. /\ Append(d, e) \in Seq(S) /\ Len(Append(d, e)) = Len(d) + 1
      /\ \A k \in 1..Len(d) : Append(d, e)[k] = d[k]
      /\ Append(d, e)[Len(d) + 1] = e
  BY <1>2, <1>3, AppendProperties
<1>6. Len(a) \in Nat /\ Len(b) \in Nat /\ Len(c) = Len(b) + 1 /\ Len(d) = Len(a) + Len(b)
  BY <1>1, <1>2, <1>3, LenProperties
<1>7. ASSUME NEW k \in 1..Len(a \o c) PROVE (a \o c)[k] = Append(d, e)[k]
  <2>1. CASE k = Len(d) + 1
    <3>1. ~(k <= Len(a)) /\ k - Len(a) = Len(b) + 1 /\ k \in 1..(Len(a) + Len(c))
      BY <1>6, <2>1
    <3>. QED  BY <1>1, <1>3, <1>4, <1>5, <2>1, <3>1
  <2>2. CASE k # Len(d) + 1
    <3>1. /\ k \in 1..(Len(a) + Len(b)) /\ k \in 1..(Len(a) + Len(c))
          /\ ~(k <= Len(a)) => k - Len(a) \in 1..Len(b)
      BY <1>4, <1>6, <2>2
    <3>. QED  BY <1>1, <1>2, <1>3, <1>4, <1>5, <1>6, <3>1
  <2>. QED  BY <2>1, <2>2
<1>8. Len(a \o c) = Len(Append(d, e))
  BY <1>4, <1>5, <1>6
<1>9. a \o c = Append(d, e)
  BY <1>4, <1>5, <1>7, <1>8, SeqEqual
<1>. QED  BY <1>3, <1>9

LEMMA ConcatThree ==
    ASSUME NEW S, NEW a \in Seq(S), NEW b \in Seq(S), NEW c \in Seq(S)
    PROVE  (a \o b) \o c = a \o (b \o c)
<1>1. PICK x, y : x = a \o b /\ y = b \o c
  OBVIOUS
<1>2. Len(a) \in Nat /\ Len(b) \in Nat /\ Len(c) \in Nat
  BY LenProperties
<1>3. /\ x \in Seq(S) /\ Len(x) = Len(a) + Len(b)
      /\ \A k \in 1..(Len(a) + Len(b)) : x[k] = IF k <= Len(a) THEN a[k] ELSE b[k - Len(a)]
  BY <1>1, ConcatProperties
<1>4. /\ y \in Seq(S) /\ Len(y) = Len(b) + Len(c)
      /\ \A k \in 1..(Len(b) + Len(c)) : y[k] = IF k <= Len(b) THEN b[k] ELSE c[k - Len(b)]
  BY <1>1, ConcatProperties
<1>5. PICK v, w : v = x \o c /\ w = a \o y
  OBVIOUS
<1>6. /\ v \in Seq(S) /\ Len(v) = Len(x) + Len(c)
      /\ \A k \in 1..(Len(x) + Len(c)) : v[k] = IF k <= Len(x) THEN x[k] ELSE c[k - Len(x)]
  BY <1>3, <1>5, ConcatProperties
<1>7. /\ w \in Seq(S) /\ Len(w) = Len(a) + Len(y)
      /\ \A k \in 1..(Len(a) + Len(y)) : w[k] = IF k <= Len(a) THEN a[k] ELSE y[k - Len(a)]
  <2>1. y \in Seq(S) /\ w = a \o y
    BY <1>4, <1>5
  <2>. QED  BY <2>1, ConcatProperties
<1>8. Len(v) = Len(w)
  BY <1>2, <1>3, <1>4, <1>6, <1>7
<1>9. ASSUME NEW k \in 1..Len(v) PROVE v[k] = w[k]
  <2>1. k \in 1..(Len(x) + Len(c)) /\ k \in 1..(Len(a) + Len(y)) /\ k \in Int
    BY <1>6, <1>7, <1>8
  <2>2. CASE k <= Len(a)
    <3>1. k <= Len(x) /\ k \in 1..(Len(a) + Len(b))
      BY <1>2, <1>3, <2>1, <2>2
    <3>. QED  BY <1>3, <1>6, <1>7, <2>1, <2>2, <3>1
  <2>3. CASE ~(k <= Len(a)) /\ k <= Len(x)
    <3>1. /\ k \in 1..(Len(a) + Len(b)) /\ k - Len(a) \in 1..(Len(b) + Len(c))
          /\ k - Len(a) <= Len(b)
      BY <1>2, <1>3, <2>1, <2>3
    <3>2. v[k] = b[k - Len(a)]
      BY <1>3, <1>6, <2>1, <2>3, <3>1
    <3>3. w[k] = b[k - Len(a)]
      BY <1>4, <1>7, <2>1, <2>3, <3>1
    <3>. QED  BY <3>2, <3>3
  <2>4. CASE ~(k <= Len(x))
    <3>1. /\ ~(k <= Len(a)) /\ k - Len(a) \in 1..(Len(b) + Len(c))
          /\ ~(k - Len(a) <= Len(b)) /\ (k - Len(a)) - Len(b) = k - Len(x)
      BY <1>2, <1>3, <1>4, <2>1, <2>4
    <3>2. v[k] = c[k - Len(x)]
      BY <1>6, <2>1, <2>4
    <3>3. w[k] = c[(k - Len(a)) - Len(b)]
      BY <1>4, <1>7, <2>1, <3>1
    <3>. QED  BY <3>1, <3>2, <3>3
  <2>. QED  BY <2>2, <2>3, <2>4
<1>10. v = w
  BY <1>6, <1>7, <1>8, <1>9, SeqEqual
<1>. QED  BY <1>1, <1>5, <1>10, Zenon

\* The exchanges of a queue put behind another are put behind the other's.
LEMMA ExchangesConcat ==
    ASSUME NEW q \in Seq(Message), NEW r \in Seq(Message), NEW codes
    PROVE  Exchanges(q \o r, codes) = Exchanges(q, codes) \o Exchanges(r, codes)
<1>1. PICK t : t = q \o r
  OBVIOUS
<1>2. /\ t \in Seq(Message) /\ Len(t) = Len(q) + Len(r) /\ Len(q) \in Nat /\ Len(r) \in Nat
      /\ \A k \in 1..(Len(q) + Len(r)) : t[k] = IF k <= Len(q) THEN q[k] ELSE r[k - Len(q)]
  BY <1>1, ConcatProperties, LenProperties
<1>. DEFINE u == Upto(q, codes)
            v == Upto(r, codes)
            w == Upto(t, codes)
            S == {k \in Nat : k <= Len(q) => w[k] = u[k]}
            T == {k \in Nat : k <= Len(r) => w[Len(q) + k] = u[Len(q)] \o v[k]}
<1>3. /\ u[0] = <<>>
      /\ \A k \in 1..Len(q) : u[k] = IF q[k].code \in codes THEN Append(u[k - 1], Exchange(q[k]))
                                                            ELSE u[k - 1]
  BY UptoStep
<1>4. /\ v[0] = <<>>
      /\ \A k \in 1..Len(r) : v[k] = IF r[k].code \in codes THEN Append(v[k - 1], Exchange(r[k]))
                                                            ELSE v[k - 1]
  BY UptoStep
<1>5. /\ w[0] = <<>>
      /\ \A k \in 1..Len(t) : w[k] = IF t[k].code \in codes THEN Append(w[k - 1], Exchange(t[k]))
                                                            ELSE w[k - 1]
  BY <1>2, UptoStep
<1>6. /\ \A k \in 0..Len(q) : u[k] \in Seq(Exchanged)
      /\ \A k \in 0..Len(r) : v[k] \in Seq(Exchanged)
  BY UptoTyped
<1>. HIDE DEF u, v, w
<1>7. Nat \subseteq S
  <2>1. 0 \in S
    BY <1>3, <1>5
  <2>2. ASSUME NEW n \in Nat, n \in S PROVE n + 1 \in S
    <3>1. CASE n + 1 <= Len(q)
      <4>1. /\ n + 1 \in 1..Len(q) /\ n + 1 \in 1..Len(t) /\ n + 1 \in 1..(Len(q) + Len(r))
            /\ (n + 1) - 1 = n /\ w[n] = u[n]
        BY <1>2, <2>2, <3>1
      <4>2. t[n + 1] = q[n + 1]
        BY <1>2, <3>1, <4>1
      <4>. QED  BY <1>3, <1>5, <4>1, <4>2
    <3>2. CASE ~(n + 1 <= Len(q))
      BY <3>2
    <3>. QED  BY <3>1, <3>2
  <2>. HIDE DEF S
  <2>. QED  BY <2>1, <2>2, SetInduction
<1>8. u[Len(q)] \in Seq(Exchanged)
  BY <1>2, <1>6
<1>9. Nat \subseteq T
  <2>1. 0 \in T
    <3>1. w[Len(q)] = u[Len(q)] /\ Len(q) + 0 = Len(q)
      BY <1>2, <1>7
    <3>2. u[Len(q)] \o <<>> = u[Len(q)]
      BY <1>8, ConcatEmptySeq
    <3>3. w[Len(q) + 0] = u[Len(q)] \o v[0]
      BY <1>4, <3>1, <3>2
    <3>. QED  BY <3>3
  <2>2. ASSUME NEW n \in Nat, n \in T PROVE n + 1 \in T
    <3>0. n + 1 \in Nat
      OBVIOUS
    <3>1. CASE n + 1 <= Len(r)
      <4>1. /\ n + 1 \in 1..Len(r) /\ (n + 1) - 1 = n /\ n \in 0..Len(r)
            /\ w[Len(q) + n] = u[Len(q)] \o v[n]
        <5>1. n + 1 \in 1..Len(r) /\ (n + 1) - 1 = n /\ n \in 0..Len(r) /\ n <= Len(r)
          <6>. HIDE DEF T
          <6>. QED  BY <1>2, <3>1
        <5>2. n <= Len(r) => w[Len(q) + n] = u[Len(q)] \o v[n]
          BY <2>2, Zenon
        <5>. QED  BY <5>1, <5>2, Zenon
      <4>2. PICK i : i = Len(q) + (n + 1)
        OBVIOUS
      <4>3. /\ i \in 1..Len(t) /\ i \in 1..(Len(q) + Len(r)) /\ i - 1 = Len(q) + n
            /\ ~(i <= Len(q)) /\ i - Len(q) = n + 1
        BY <1>2, <4>1, <4>2
      <4>4. t[i] = r[n + 1] /\ r[n + 1] \in Message
        BY <1>2, <4>1, <4>3, ElementOfSeq
      <4>5. Exchange(r[n + 1]) \in Exchanged
        BY <4>4 DEF Exchanged
      <4>6. w[i] = IF r[n + 1].code \in codes THEN Append(u[Len(q)] \o v[n], Exchange(r[n + 1]))
                                               ELSE u[Len(q)] \o v[n]
        BY <1>5, <4>1, <4>3, <4>4
      <4>7. v[n + 1] = IF r[n + 1].code \in codes THEN Append(v[n], Exchange(r[n + 1])) ELSE v[n]
        BY <1>4, <4>1
      <4>8. u[Len(q)] \o Append(v[n], Exchange(r[n + 1]))
               = Append(u[Len(q)] \o v[n], Exchange(r[n + 1]))
        <5>1. PICK a, b, e : a = u[Len(q)] /\ b = v[n] /\ e = Exchange(r[n + 1])
          OBVIOUS
        <5>2. a \in Seq(Exchanged) /\ b \in Seq(Exchanged) /\ e \in Exchanged
          BY <1>6, <1>8, <4>1, <4>5, <5>1
        <5>3. a \o Append(b, e) = Append(a \o b, e)
          BY <5>2, ConcatStep
        <5>. QED  BY <5>1, <5>3
      <4>9. w[i] = u[Len(q)] \o v[n + 1]
        <5>1. CASE r[n + 1].code \in codes
          BY <4>6, <4>7, <4>8, <5>1, Zenon
        <5>2. CASE r[n + 1].code \notin codes
          BY <4>6, <4>7, <5>2, Zenon
        <5>. QED  BY <5>1, <5>2
      <4>10. w[Len(q) + (n + 1)] = u[Len(q)] \o v[n + 1]
        BY <4>2, <4>9, Zenon
      <4>. QED  BY <3>0, <4>10, Zenon
    <3>2. CASE ~(n + 1 <= Len(r))
      BY <3>0, <3>2, Zenon
    <3>. QED  BY <3>1, <3>2
  <2>. HIDE DEF T
  <2>. QED  BY <2>1, <2>2, SetInduction
<1>10. w[Len(t)] = u[Len(q)] \o v[Len(r)]
  <2>1. w[Len(q) + Len(r)] = u[Len(q)] \o v[Len(r)]
    <3>1. Len(r) \in T
      <4>. HIDE DEF T
      <4>. QED  BY <1>2, <1>9
    <3>2. Len(r) <= Len(r)
      BY <1>2
    <3>. QED  BY <3>1, <3>2
  <2>. QED  BY <1>2, <2>1
<1>. QED  BY <1>1, <1>10, ExchangesIsUpto DEF u, v, w

LEMMA ExchangesFew ==
    ASSUME NEW codes
    PROVE  /\ Exchanges(<<>>, codes) = <<>>
           /\ \A m \in Message : Exchanges(<<m>>, codes) =
                                    IF m.code \in codes THEN <<Exchange(m)>> ELSE <<>>
<1>1. Exchanges(<<>>, codes) = <<>>
  <2>1. <<>> \in Seq(Message) /\ Len(<<>>) = 0
    OBVIOUS
  <2>2. PICK none : none = <<>>
    OBVIOUS
  <2>3. none \in Seq(Message) /\ Len(none) = 0
    BY <2>1, <2>2
  <2>4. Upto(none, codes)[0] = <<>> /\ Exchanges(none, codes) = Upto(none, codes)[0]
    BY <2>3, UptoStep, ExchangesIsUpto
  <2>. QED  BY <2>2, <2>4
<1>2. ASSUME NEW m \in Message
      PROVE  Exchanges(<<m>>, codes) = IF m.code \in codes THEN <<Exchange(m)>> ELSE <<>>
  <2>1. PICK one : one = <<m>>
    OBVIOUS
  <2>2. one \in Seq(Message) /\ Len(one) = 1 /\ one[1] = m /\ 1 \in 1..Len(one) /\ 1 - 1 = 0
    BY <2>1
  <2>3. Upto(one, codes)[1] = IF m.code \in codes THEN Append(<<>>, Exchange(m)) ELSE <<>>
    <3>1. /\ Upto(one, codes)[0] = <<>>
          /\ Upto(one, codes)[1] = IF one[1].code \in codes
                                     THEN Append(Upto(one, codes)[0], Exchange(one[1]))
                                     ELSE Upto(one, codes)[0]
      BY <2>2, UptoStep
    <3>. QED  BY <2>2, <3>1, Zenon
  <2>4. \A e : Append(<<>>, e) = <<e>>
    OBVIOUS
  <2>5. Append(<<>>, Exchange(m)) = <<Exchange(m)>>
    BY <2>4
  <2>6. Exchanges(one, codes) = Upto(one, codes)[1]
    BY <2>2, ExchangesIsUpto
  <2>7. Exchanges(one, codes) = IF m.code \in codes THEN <<Exchange(m)>> ELSE <<>>
    BY <2>3, <2>5, <2>6, Zenon
  <2>. QED  BY <2>1, <2>7, Zenon
<1>. QED  BY <1>1, <1>2

LEMMA ExchangesTail ==
    ASSUME NEW q \in Seq(Message), q # <<>>, NEW codes
    PROVE  Exchanges(q, codes) = Exchanges(<<Head(q)>>, codes) \o Exchanges(Tail(q), codes)
<1>1. Head(q) \in Message /\ Tail(q) \in Seq(Message) /\ q = <<Head(q)>> \o Tail(q)
  BY HeadTailProperties
<1>2. PICK one, rest : one = <<Head(q)>> /\ rest = Tail(q)
  OBVIOUS
<1>3. one \in Seq(Message) /\ rest \in Seq(Message) /\ q = one \o rest
  BY <1>1, <1>2
<1>4. Exchanges(one \o rest, codes) = Exchanges(one, codes) \o Exchanges(rest, codes)
  BY <1>3, ExchangesConcat
<1>5. Exchanges(q, codes) = Exchanges(one, codes) \o Exchanges(rest, codes)
  BY <1>3, <1>4, Zenon
<1>. QED  BY <1>2, <1>5, Zenon

\* Messages of other codes are not exchanged.
LEMMA ExchangesNone ==
    ASSUME NEW q \in Seq(Message), NEW codes, \A k \in 1..Len(q) : q[k].code \notin codes
    PROVE  Exchanges(q, codes) = <<>>
<1>. DEFINE u == Upto(q, codes)
            S == {k \in Nat : k <= Len(q) => u[k] = <<>>}
<1>1. /\ u[0] = <<>>
      /\ \A k \in 1..Len(q) : u[k] = IF q[k].code \in codes THEN Append(u[k - 1], Exchange(q[k]))
                                                            ELSE u[k - 1]
  BY UptoStep
<1>2. Len(q) \in Nat
  BY LenProperties
<1>. HIDE DEF u
<1>3. Nat \subseteq S
  <2>1. 0 \in S
    BY <1>1
  <2>2. ASSUME NEW n \in Nat, n \in S PROVE n + 1 \in S
    <3>1. CASE n + 1 <= Len(q)
      <4>1. n + 1 \in 1..Len(q) /\ (n + 1) - 1 = n /\ u[n] = <<>>
        BY <1>2, <2>2, <3>1
      <4>2. u[n + 1] = u[n]
        BY <1>1, <4>1
      <4>. QED  BY <4>1, <4>2
    <3>2. CASE ~(n + 1 <= Len(q))
      BY <3>2
    <3>. QED  BY <3>1, <3>2
  <2>. HIDE DEF S
  <2>. QED  BY <2>1, <2>2, SetInduction
<1>4. u[Len(q)] = <<>>
  <2>1. Len(q) \in S /\ Len(q) <= Len(q)
    BY <1>2, <1>3
  <2>. QED  BY <2>1
<1>. QED  BY <1>4, ExchangesIsUpto DEF u

-----------------------------------------------------------------------------
(* Requests and their answers                                                *)

\* What is compared of the requests a peer has made.
Compared(r) == [k \in DOMAIN r |-> <<r[k][1], IF r[k][1] = "InfoReq" THEN 0 ELSE r[k][2]>>]

Matches(p, d, r) == Exchanges(p, Responses) \o Exchanges(d, Request) = Compared(r)

LEMMA AllMatch == AnswersMatch <=> \A s \in Slot : Matches(toPeer[s], toDev[s], pend[s])
BY DEF AnswersMatch, Owed, Matches, Compared

Asked == Request \X Nat

ComparedRequest(a) == <<a[1], IF a[1] = "InfoReq" THEN 0 ELSE a[2]>>

LEMMA ComparedElements ==
    ASSUME NEW r \in Seq(Asked)
    PROVE  /\ Compared(r) \in Seq({ComparedRequest(a) : a \in Asked})
           /\ Len(Compared(r)) = Len(r)
           /\ \A k \in 1..Len(r) : Compared(r)[k] = ComparedRequest(r[k])
<1>1. Len(r) \in Nat /\ DOMAIN r = 1..Len(r) /\ \A k \in 1..Len(r) : r[k] \in Asked
  BY LenProperties, ElementOfSeq
<1>2. Compared(r) = [k \in 1..Len(r) |-> ComparedRequest(r[k])]
  BY <1>1 DEF Compared, ComparedRequest
<1>3. \A k \in 1..Len(r) : ComparedRequest(r[k]) \in {ComparedRequest(a) : a \in Asked}
  BY <1>1
<1>. DEFINE f(k) == ComparedRequest(r[k])
<1>4. Compared(r) \in [1..Len(r) -> {ComparedRequest(a) : a \in Asked}]
  BY <1>2, <1>3, Zenon
<1>5. Compared(r) \in Seq({ComparedRequest(a) : a \in Asked})
  BY <1>1, <1>4, SeqDef
<1>6. Len(Compared(r)) = Len(r)
  <2>1. DOMAIN Compared(r) = 1..Len(r)
    BY <1>2
  <2>2. DOMAIN Compared(r) = 1..Len(Compared(r)) /\ Len(Compared(r)) \in Nat
    BY <1>5, LenProperties
  <2>. QED  BY <1>1, <2>1, <2>2
<1>. QED  BY <1>2, <1>5, <1>6, Zenon

LEMMA ComparedTail ==
    ASSUME NEW r \in Seq(Asked), r # <<>>
    PROVE  Compared(Tail(r)) = Tail(Compared(r)) /\ Compared(r) # <<>>
<1>1. /\ Tail(r) \in Seq(Asked) /\ Len(Tail(r)) = Len(r) - 1 /\ Len(r) \in Nat /\ Len(r) >= 1
      /\ \A k \in 1..Len(Tail(r)) : Tail(r)[k] = r[k + 1]
  BY TailThenMore, EmptySeq
<1>2. PICK t : t = Tail(r)
  OBVIOUS
<1>3. PICK c, ct : c = Compared(r) /\ ct = Compared(t)
  OBVIOUS
<1>4. PICK C : C = {ComparedRequest(a) : a \in Asked}
  OBVIOUS
<1>5. c \in Seq(C) /\ Len(c) = Len(r) /\ \A k \in 1..Len(r) : c[k] = ComparedRequest(r[k])
  BY <1>3, <1>4, ComparedElements
<1>6. ct \in Seq(C) /\ Len(ct) = Len(t) /\ \A k \in 1..Len(t) : ct[k] = ComparedRequest(t[k])
  BY <1>1, <1>2, <1>3, <1>4, ComparedElements
<1>7. c # <<>>
  BY <1>1, <1>5
<1>8. /\ Tail(c) \in Seq(C) /\ Len(Tail(c)) = Len(c) - 1
      /\ \A k \in 1..Len(Tail(c)) : Tail(c)[k] = c[k + 1]
  BY <1>5, <1>7, TailThenMore, EmptySeq
<1>9. ASSUME NEW k \in 1..Len(ct) PROVE ct[k] = Tail(c)[k]
  <2>1. k \in 1..Len(Tail(c)) /\ k \in 1..Len(t) /\ k + 1 \in 1..Len(r) /\ k \in 1..Len(Tail(r))
    BY <1>1, <1>2, <1>5, <1>6, <1>8
  <2>2. ct[k] = ComparedRequest(t[k]) /\ t[k] = r[k + 1]
    BY <1>1, <1>2, <1>6, <2>1
  <2>3. Tail(c)[k] = c[k + 1] /\ c[k + 1] = ComparedRequest(r[k + 1])
    BY <1>5, <1>8, <2>1
  <2>. QED  BY <2>2, <2>3
<1>10. Len(ct) = Len(Tail(c))
  BY <1>1, <1>2, <1>5, <1>6, <1>8
<1>11. ct = Tail(c)
  BY <1>6, <1>8, <1>9, <1>10, SeqEqual
<1>. QED  BY <1>2, <1>3, <1>7, <1>11

LEMMA ComparedAppend ==
    ASSUME NEW r \in Seq(Asked), NEW a \in Asked
    PROVE  Compared(Append(r, a)) = Append(Compared(r), ComparedRequest(a))
<1>1. PICK t : t = Append(r, a)
  OBVIOUS
<1>2. /\ t \in Seq(Asked) /\ Len(t) = Len(r) + 1 /\ Len(r) \in Nat
      /\ \A k \in 1..Len(r) : t[k] = r[k]
      /\ t[Len(r) + 1] = a
  BY <1>1, AppendProperties, LenProperties
<1>3. PICK c, ct, e : c = Compared(r) /\ ct = Compared(t) /\ e = ComparedRequest(a)
  OBVIOUS
<1>4. PICK C : C = {ComparedRequest(b) : b \in Asked}
  OBVIOUS
<1>5. c \in Seq(C) /\ Len(c) = Len(r) /\ \A k \in 1..Len(r) : c[k] = ComparedRequest(r[k])
  BY <1>3, <1>4, ComparedElements
<1>6. ct \in Seq(C) /\ Len(ct) = Len(t) /\ \A k \in 1..Len(t) : ct[k] = ComparedRequest(t[k])
  BY <1>2, <1>3, <1>4, ComparedElements
<1>7. e \in C
  BY <1>3, <1>4
<1>8. /\ Append(c, e) \in Seq(C) /\ Len(Append(c, e)) = Len(c) + 1
      /\ \A k \in 1..Len(c) : Append(c, e)[k] = c[k]
      /\ Append(c, e)[Len(c) + 1] = e
  BY <1>5, <1>7, AppendProperties
<1>9. ASSUME NEW k \in 1..Len(ct) PROVE ct[k] = Append(c, e)[k]
  <2>1. CASE k = Len(r) + 1
    <3>1. ct[k] = ComparedRequest(t[k]) /\ t[k] = a
      BY <1>2, <1>6, <2>1
    <3>2. Append(c, e)[k] = e
      BY <1>5, <1>8, <2>1
    <3>. QED  BY <1>3, <3>1, <3>2
  <2>2. CASE k # Len(r) + 1
    <3>1. k \in 1..Len(r) /\ k \in 1..Len(c) /\ k \in 1..Len(t)
      BY <1>2, <1>5, <1>6, <2>2
    <3>2. ct[k] = ComparedRequest(t[k]) /\ t[k] = r[k]
      BY <1>2, <1>6, <3>1
    <3>3. Append(c, e)[k] = c[k] /\ c[k] = ComparedRequest(r[k])
      BY <1>5, <1>8, <3>1
    <3>. QED  BY <3>2, <3>3
  <2>. QED  BY <2>1, <2>2
<1>10. Len(ct) = Len(Append(c, e))
  BY <1>2, <1>5, <1>6, <1>8
<1>11. ct = Append(c, e)
  BY <1>6, <1>8, <1>9, <1>10, SeqEqual
<1>. QED  BY <1>1, <1>3, <1>11

\* Three sequences of exchanges in a row.
LEMMA ExchangedThree ==
    \A a, b, c \in Seq(Exchanged) : (a \o b) \o c = a \o (b \o c)
<1>1. PICK S : S = Exchanged
  OBVIOUS
<1>2. \A a, b, c \in Seq(S) : (a \o b) \o c = a \o (b \o c)
  BY ConcatThree, SMTT(30)
<1>. QED  BY <1>1, <1>2, SMTT(30)

\* What the device takes from its queue it answers with one response, if it is
\* a request, and with none otherwise.
LEMMA MatchedAnswer ==
    ASSUME NEW p \in Seq(Message), NEW d \in Seq(Message), NEW r, NEW msgs \in Seq(Message),
           d # <<>>, Matches(p, d, r),
           Exchanges(msgs, Responses) = Exchanges(<<Head(d)>>, Request)
    PROVE  Matches(p \o msgs, Tail(d), r)
<1>1. Tail(d) \in Seq(Message)
  BY TailThenMore
<1>2. Exchanges(d, Request) = Exchanges(<<Head(d)>>, Request) \o Exchanges(Tail(d), Request)
  BY ExchangesTail
<1>3. Exchanges(p \o msgs, Responses) = Exchanges(p, Responses) \o Exchanges(msgs, Responses)
  BY ExchangesConcat
<1>4. PICK a, b, c : /\ a = Exchanges(p, Responses) /\ b = Exchanges(msgs, Responses)
                     /\ c = Exchanges(Tail(d), Request)
  OBVIOUS
<1>5. a \in Seq(Exchanged) /\ b \in Seq(Exchanged) /\ c \in Seq(Exchanged)
  BY <1>1, <1>4, ExchangesTyped
<1>6. (a \o b) \o c = a \o (b \o c)
  BY <1>5, ExchangedThree, Zenon
<1>7. Exchanges(p \o msgs, Responses) = a \o b /\ Exchanges(d, Request) = b \o c
  BY <1>2, <1>3, <1>4, Zenon
<1>. QED  BY <1>4, <1>6, <1>7, Zenon DEF Matches

\* Queues that contain the same exchanges match the same requests.
LEMMA MatchedSame ==
    ASSUME NEW p, NEW d, NEW q, NEW e, NEW r, Matches(p, d, r),
           Exchanges(q, Responses) = Exchanges(p, Responses),
           Exchanges(e, Request) = Exchanges(d, Request)
    PROVE  Matches(q, e, r)
BY Zenon DEF Matches

LEMMA ExchangesMore ==
    ASSUME NEW q \in Seq(Message), NEW msgs \in Seq(Message), NEW codes,
           \A k \in 1..Len(msgs) : msgs[k].code \notin codes
    PROVE  Exchanges(q \o msgs, codes) = Exchanges(q, codes)
<1>1. Exchanges(msgs, codes) = <<>>
  BY ExchangesNone
<1>2. Exchanges(q \o msgs, codes) = Exchanges(q, codes) \o Exchanges(msgs, codes)
  BY ExchangesConcat
<1>3. Exchanges(q, codes) \in Seq(Exchanged)
  BY ExchangesTyped
<1>4. Exchanges(q, codes) \o <<>> = Exchanges(q, codes)
  BY <1>3, ConcatEmptySeq
<1>. QED  BY <1>1, <1>2, <1>4, Zenon

LEMMA ExchangesAppend ==
    ASSUME NEW q \in Seq(Message), NEW m \in Message, NEW codes
    PROVE  Exchanges(Append(q, m), codes) =
              IF m.code \in codes THEN Append(Exchanges(q, codes), Exchange(m))
                                  ELSE Exchanges(q, codes)
<1>1. PICK one : one = <<m>>
  OBVIOUS
<1>2. one \in Seq(Message) /\ Append(q, m) = q \o one
  <2>1. Append(q, m) = q \o <<m>>
    BY AppendIsConcat
  <2>. QED  BY <1>1, <2>1
<1>3. Exchanges(q \o one, codes) = Exchanges(q, codes) \o Exchanges(one, codes)
  BY <1>2, ExchangesConcat
<1>4. Exchanges(one, codes) = IF m.code \in codes THEN <<Exchange(m)>> ELSE <<>>
  BY <1>1, ExchangesFew, Zenon
<1>5. PICK x, e : x = Exchanges(q, codes) /\ e = Exchange(m)
  OBVIOUS
<1>6. x \in Seq(Exchanged) /\ e \in Exchanged
  BY <1>5, ExchangesTyped DEF Exchanged
<1>7. x \o <<e>> = Append(x, e) /\ x \o <<>> = x
  BY <1>6, AppendIsConcat, ConcatEmptySeq
<1>8. CASE m.code \in codes
  BY <1>2, <1>3, <1>4, <1>5, <1>7, <1>8, Zenon
<1>9. CASE m.code \notin codes
  BY <1>2, <1>3, <1>4, <1>5, <1>7, <1>9, Zenon
<1>. QED  BY <1>8, <1>9

LEMMA ExchangesDropped ==
    ASSUME NEW q \in Seq(Message), q # <<>>, NEW codes, Head(q).code \notin codes
    PROVE  Exchanges(Tail(q), codes) = Exchanges(q, codes)
<1>1. Head(q) \in Message /\ Tail(q) \in Seq(Message)
  BY TailThenMore
<1>2. Exchanges(q, codes) = Exchanges(<<Head(q)>>, codes) \o Exchanges(Tail(q), codes)
  BY ExchangesTail
<1>3. Exchanges(<<Head(q)>>, codes) = <<>>
  BY <1>1, ExchangesFew, Zenon
<1>4. Exchanges(Tail(q), codes) \in Seq(Exchanged)
  BY <1>1, ExchangesTyped
<1>5. <<>> \o Exchanges(Tail(q), codes) = Exchanges(Tail(q), codes)
  BY <1>4, ConcatEmptySeq
<1>. QED  BY <1>2, <1>3, <1>5, Zenon

\* A request made is owed an answer after those owed before.
LEMMA MatchedAsk ==
    ASSUME NEW p \in Seq(Message), NEW d \in Seq(Message), NEW r \in Seq(Asked),
           NEW m \in Message, m.code \in Request, <<m.code, m.id>> \in Asked, Matches(p, d, r)
    PROVE  Matches(p, Append(d, m), Append(r, <<m.code, m.id>>))
<1>1. PICK a : a = <<m.code, m.id>>
  OBVIOUS
<1>2. Compared(Append(r, a)) = Append(Compared(r), ComparedRequest(a))
  BY <1>1, ComparedAppend
<1>3. Exchange(m) = ComparedRequest(a)
  <2>1. m.code \in {"InfoReq", "InfoRsp"} <=> a[1] = "InfoReq"
    BY <1>1 DEF Request
  <2>2. a[1] = m.code /\ a[2] = m.id
    BY <1>1
  <2>. QED  BY <2>1, <2>2, Zenon DEF Exchange, ComparedRequest
<1>4. Exchanges(Append(d, m), Request) = Append(Exchanges(d, Request), Exchange(m))
  BY ExchangesAppend, Zenon
<1>5. PICK x, y, e : x = Exchanges(p, Responses) /\ y = Exchanges(d, Request) /\ e = Exchange(m)
  OBVIOUS
<1>6. x \in Seq(Exchanged) /\ y \in Seq(Exchanged) /\ e \in Exchanged
  BY <1>5, ExchangesTyped DEF Exchanged
<1>7. x \o Append(y, e) = Append(x \o y, e)
  BY <1>6, ConcatStep
<1>8. x \o y = Compared(r)
  BY <1>5, Zenon DEF Matches
<1>9. x \o Append(y, e) = Compared(Append(r, a))
  BY <1>2, <1>3, <1>5, <1>7, <1>8, Zenon
<1>10. Exchanges(p, Responses) \o Exchanges(Append(d, m), Request) = Compared(Append(r, a))
  BY <1>4, <1>5, <1>9, Zenon
<1>. QED  BY <1>1, <1>10, Zenon DEF Matches

\* The answer at the head of the peer's queue is that to its oldest request.
LEMMA MatchedAnswered ==
    ASSUME NEW p \in Seq(Message), NEW d \in Seq(Message), NEW r \in Seq(Asked),
           p # <<>>, r # <<>>, Head(p).code \in Responses, Matches(p, d, r)
    PROVE  Matches(Tail(p), d, Tail(r))
<1>1. Head(p) \in Message /\ Tail(p) \in Seq(Message)
  BY TailThenMore
<1>2. Exchanges(p, Responses) = Exchanges(<<Head(p)>>, Responses) \o Exchanges(Tail(p), Responses)
  BY ExchangesTail
<1>3. Exchanges(<<Head(p)>>, Responses) = <<Exchange(Head(p))>>
  BY <1>1, ExchangesFew, Zenon
<1>4. PICK e, x, y : /\ e = Exchange(Head(p)) /\ x = Exchanges(Tail(p), Responses)
                     /\ y = Exchanges(d, Request)
  OBVIOUS
<1>5. e \in Exchanged /\ x \in Seq(Exchanged) /\ y \in Seq(Exchanged)
  BY <1>1, <1>4, ExchangesTyped DEF Exchanged
<1>6. PICK one : one = <<e>>
  OBVIOUS
<1>7. one \in Seq(Exchanged) /\ Len(one) = 1
  BY <1>5, <1>6
<1>8. (one \o x) \o y = one \o (x \o y)
  BY <1>5, <1>7, ExchangedThree, Zenon
<1>9. Compared(r) = one \o (x \o y)
  <2>1. Exchanges(p, Responses) = one \o x
    BY <1>2, <1>3, <1>4, <1>6, Zenon
  <2>. QED  BY <1>4, <1>8, <2>1, Zenon DEF Matches
<1>10. PICK z : z = x \o y
  OBVIOUS
<1>11. z \in Seq(Exchanged)
  BY <1>5, <1>10, ConcatProperties
<1>12. Tail(one \o z) = z
  <2>1. PICK t : t = one \o z
    OBVIOUS
  <2>2. /\ t \in Seq(Exchanged) /\ Len(t) = 1 + Len(z) /\ Len(z) \in Nat
        /\ \A k \in 1..(1 + Len(z)) : t[k] = IF k <= 1 THEN one[k] ELSE z[k - 1]
    <3>1. /\ one \o z \in Seq(Exchanged) /\ Len(one \o z) = Len(one) + Len(z)
          /\ \A k \in 1..(Len(one) + Len(z)) :
                (one \o z)[k] = IF k <= Len(one) THEN one[k] ELSE z[k - Len(one)]
      BY <1>7, <1>11, ConcatProperties
    <3>2. Len(z) \in Nat
      BY <1>11, LenProperties
    <3>. QED  BY <1>7, <2>1, <3>1, <3>2
  <2>3. t # <<>>
    BY <2>2
  <2>4. /\ Tail(t) \in Seq(Exchanged) /\ Len(Tail(t)) = Len(t) - 1
        /\ \A k \in 1..Len(Tail(t)) : Tail(t)[k] = t[k + 1]
    BY <2>2, <2>3, TailThenMore, EmptySeq
  <2>5. ASSUME NEW k \in 1..Len(Tail(t)) PROVE Tail(t)[k] = z[k]
    <3>1. k + 1 \in 1..(1 + Len(z)) /\ ~(k + 1 <= 1) /\ (k + 1) - 1 = k
      BY <2>2, <2>4
    <3>2. t[k + 1] = z[(k + 1) - 1]
      BY <2>2, <3>1
    <3>. QED  BY <2>4, <3>1, <3>2
  <2>6. Len(Tail(t)) = Len(z)
    BY <2>2, <2>4
  <2>7. Tail(t) = z
    BY <1>11, <2>4, <2>5, <2>6, SeqEqual
  <2>. QED  BY <2>1, <2>7
<1>13. Tail(Compared(r)) = x \o y
  BY <1>9, <1>10, <1>12, Zenon
<1>14. Compared(Tail(r)) = Tail(Compared(r))
  BY ComparedTail
<1>. QED  BY <1>4, <1>13, <1>14, Zenon DEF Matches

LEMMA MatchedNothing == Matches(<<>>, <<>>, <<>>)
<1>1. \A codes : Exchanges(<<>>, codes) = <<>>
  BY ExchangesFew
<1>2. Compared(<<>>) = <<>> /\ <<>> \o <<>> = <<>>
  BY DEF Compared
<1>. QED  BY <1>1, <1>2, Zenon DEF Matches

-----------------------------------------------------------------------------
(* The steps, and what they leave owed                                       *)

LEMMA AllMatchNext ==
    (\A s \in Slot : Matches(toPeer'[s], toDev'[s], pend'[s])) => AnswersMatch'
BY DEF AnswersMatch, Owed, Matches, Compared

\* A step concerns one peer: the queues of the others are as they were.
LEMMA OnePeer ==
    ASSUME AnswersMatch, NEW s \in Slot, Matches(toPeer'[s], toDev'[s], pend'[s]),
           \A t \in Slot \ {s} : /\ toPeer'[t] = toPeer[t] /\ toDev'[t] = toDev[t]
                                 /\ pend'[t] = pend[t]
    PROVE  AnswersMatch'
<1>1. ASSUME NEW t \in Slot PROVE Matches(toPeer'[t], toDev'[t], pend'[t])
  <2>1. CASE t = s
    BY <2>1
  <2>2. CASE t # s
    BY <2>2, AllMatch, Zenon
  <2>. QED  BY <2>1, <2>2
<1>. QED  BY <1>1, AllMatchNext

LEMMA QueuesTyped ==
    ASSUME IInv
    PROVE  /\ toPeer \in [Slot -> Seq(Message)] /\ toDev \in [Slot -> Seq(Message)]
           /\ pend \in [Slot -> Seq(Asked)]
           /\ \A s \in Slot : /\ toPeer[s] \in Seq(Message) /\ toDev[s] \in Seq(Message)
                              /\ pend[s] \in Seq(Asked)
BY DEF IInv, TypeOK, Asked

LEMMA AnswerMatches ==
    ASSUME IInv, AnswersMatch, NEW s \in Slot, NEW codes, Incoming(s, codes),
           NEW msgs \in Seq(Message), Answer(s, msgs),
           Exchanges(msgs, Responses) = Exchanges(<<Head(toDev[s])>>, Request)
    PROVE  AnswersMatch'
<1>1. /\ toDev' = [toDev EXCEPT ![s] = Tail(toDev[s])]
      /\ toPeer' = [toPeer EXCEPT ![s] = toPeer[s] \o msgs]
      /\ pend' = pend
  BY DEF Answer
<1>2. /\ toPeer'[s] = toPeer[s] \o msgs /\ toDev'[s] = Tail(toDev[s]) /\ pend'[s] = pend[s]
      /\ \A t \in Slot \ {s} : /\ toPeer'[t] = toPeer[t] /\ toDev'[t] = toDev[t]
                               /\ pend'[t] = pend[t]
  BY <1>1, QueuesTyped
<1>3. PICK p, d, r : p = toPeer[s] /\ d = toDev[s] /\ r = pend[s]
  OBVIOUS
<1>4. p \in Seq(Message) /\ d \in Seq(Message) /\ d # <<>> /\ Matches(p, d, r)
  BY <1>3, QueuesTyped, AllMatch DEF Incoming
<1>5. Exchanges(msgs, Responses) = Exchanges(<<Head(d)>>, Request)
  BY <1>3
<1>6. Matches(p \o msgs, Tail(d), r)
  BY <1>4, <1>5, MatchedAnswer
<1>. QED  BY <1>2, <1>3, <1>6, OnePeer

LEMMA ConsumeMatches ==
    ASSUME IInv, AnswersMatch, NEW s \in Slot, toPeer[s] # <<>>,
           Head(toPeer[s]).code \notin Responses, NEW msgs \in Seq(Message),
           \A k \in 1..Len(msgs) : msgs[k].code \notin Request,
           Consume(s, msgs), UNCHANGED pend
    PROVE  AnswersMatch'
<1>1. /\ toPeer' = [toPeer EXCEPT ![s] = Tail(toPeer[s])]
      /\ toDev' = [toDev EXCEPT ![s] = toDev[s] \o msgs]
  BY DEF Consume
<1>2. /\ toPeer'[s] = Tail(toPeer[s]) /\ toDev'[s] = toDev[s] \o msgs /\ pend'[s] = pend[s]
      /\ \A t \in Slot \ {s} : /\ toPeer'[t] = toPeer[t] /\ toDev'[t] = toDev[t]
                               /\ pend'[t] = pend[t]
  BY <1>1, QueuesTyped
<1>3. PICK p, d, r : p = toPeer[s] /\ d = toDev[s] /\ r = pend[s]
  OBVIOUS
<1>4. /\ p \in Seq(Message) /\ d \in Seq(Message) /\ p # <<>> /\ Head(p).code \notin Responses
      /\ Matches(p, d, r)
  BY <1>3, QueuesTyped, AllMatch
<1>5. Exchanges(Tail(p), Responses) = Exchanges(p, Responses)
  BY <1>4, ExchangesDropped
<1>6. Exchanges(d \o msgs, Request) = Exchanges(d, Request)
  BY <1>4, ExchangesMore
<1>7. Matches(Tail(p), d \o msgs, r)
  BY <1>4, <1>5, <1>6, MatchedSame, Zenon
<1>. QED  BY <1>2, <1>3, <1>7, OnePeer

LEMMA AskMatches ==
    ASSUME IInv, AnswersMatch, NEW s \in Slot, NEW m \in Message, m.code \in Request,
           m.id \in Nat, Ask(s, m), UNCHANGED toPeer
    PROVE  AnswersMatch'
<1>1. PICK a : a = <<m.code, m.id>>
  OBVIOUS
<1>2. /\ toDev' = [toDev EXCEPT ![s] = Append(toDev[s], m)]
      /\ pend' = [pend EXCEPT ![s] = Append(pend[s], a)]
  BY <1>1 DEF Ask
<1>3. /\ toPeer'[s] = toPeer[s] /\ toDev'[s] = Append(toDev[s], m)
      /\ pend'[s] = Append(pend[s], a)
      /\ \A t \in Slot \ {s} : /\ toPeer'[t] = toPeer[t] /\ toDev'[t] = toDev[t]
                               /\ pend'[t] = pend[t]
  BY <1>2, QueuesTyped
<1>4. PICK p, d, r : p = toPeer[s] /\ d = toDev[s] /\ r = pend[s]
  OBVIOUS
<1>5. p \in Seq(Message) /\ d \in Seq(Message) /\ r \in Seq(Asked) /\ Matches(p, d, r)
  BY <1>4, QueuesTyped, AllMatch
<1>6. <<m.code, m.id>> \in Asked
  BY DEF Asked
<1>7. Matches(p, Append(d, m), Append(r, <<m.code, m.id>>))
  BY <1>5, <1>6, MatchedAsk
<1>8. Matches(p, Append(d, m), Append(r, a))
  BY <1>1, <1>7, Zenon
<1>. QED  BY <1>3, <1>4, <1>8, OnePeer

\* What is sent to a peer of the device's own accord is no response.
LEMMA SendMatches ==
    ASSUME IInv, AnswersMatch, NEW s \in Slot, NEW m \in Message, m.code \notin Responses,
           toPeer' = [toPeer EXCEPT ![s] = Append(toPeer[s], m)], UNCHANGED <<toDev, pend>>
    PROVE  AnswersMatch'
<1>1. /\ toPeer'[s] = Append(toPeer[s], m) /\ toDev'[s] = toDev[s] /\ pend'[s] = pend[s]
      /\ \A t \in Slot \ {s} : /\ toPeer'[t] = toPeer[t] /\ toDev'[t] = toDev[t]
                               /\ pend'[t] = pend[t]
  BY QueuesTyped
<1>2. PICK p, d, r : p = toPeer[s] /\ d = toDev[s] /\ r = pend[s]
  OBVIOUS
<1>3. p \in Seq(Message) /\ Matches(p, d, r)
  BY <1>2, QueuesTyped, AllMatch
<1>4. Exchanges(Append(p, m), Responses) = Exchanges(p, Responses)
  BY <1>3, ExchangesAppend, Zenon
<1>5. Matches(Append(p, m), d, r)
  BY <1>3, <1>4, MatchedSame, Zenon
<1>. QED  BY <1>1, <1>2, <1>5, OnePeer

LEMMA StillMatches ==
    ASSUME AnswersMatch, UNCHANGED <<toPeer, toDev, pend>>
    PROVE  AnswersMatch'
BY DEF AnswersMatch, Owed

LEMMA Two ==
    ASSUME NEW S, NEW a \in S, NEW b \in S
    PROVE  Append(<<a>>, b) = <<a, b>>
<1>1. PICK one, both : one = <<a>> /\ both = <<a, b>>
  OBVIOUS
<1>2. one \in Seq(S) /\ Len(one) = 1 /\ one[1] = a
  BY <1>1
<1>3. both \in Seq(S) /\ Len(both) = 2 /\ both[1] = a /\ both[2] = b
  BY <1>1
<1>4. PICK more : more = Append(one, b)
  OBVIOUS
<1>5. /\ more \in Seq(S) /\ Len(more) = 2
      /\ \A k \in 1..1 : more[k] = one[k]
      /\ more[2] = b
  <2>1. /\ Append(one, b) \in Seq(S) /\ Len(Append(one, b)) = Len(one) + 1
        /\ \A k \in 1..Len(one) : Append(one, b)[k] = one[k]
        /\ Append(one, b)[Len(one) + 1] = b
    <3>1. one \in Seq(S)
      BY <1>2
    <3>. QED  BY <3>1, AppendProperties
  <2>. QED  BY <1>2, <1>4, <2>1
<1>6. \A k \in 1..Len(more) : more[k] = both[k]
  <2>1. \A k \in 1..2 : k = 1 \/ k = 2
    OBVIOUS
  <2>2. more[1] = a
    BY <1>2, <1>5
  <2>. QED  BY <1>3, <1>5, <2>1, <2>2
<1>7. more = both
  BY <1>3, <1>5, <1>6, SeqEqual
<1>. QED  BY <1>1, <1>4, <1>7, Zenon

\* A response to a request, under its identifier unless nobody compares it.
LEMMA ResponseTo ==
    ASSUME NEW h \in Message, NEW a \in Message,
           <<h.code, a.code>> \in {<<"ConnReq", "ConnRsp">>, <<"ConfReq", "ConfRsp">>,
                                   <<"DiscReq", "DiscRsp">>, <<"EchoReq", "EchoRsp">>,
                                   <<"InfoReq", "InfoRsp">>},
           h.code # "InfoReq" => a.id = h.id
    PROVE  /\ Exchanges(<<a>>, Responses) = Exchanges(<<h>>, Request)
           /\ Exchanges(<<a>>, Responses) = <<Exchange(a)>>
<1>1. /\ h.code \in Request /\ a.code \in Responses /\ a.code \notin Request
      /\ h.code \in {"InfoReq", "InfoRsp"} <=> a.code \in {"InfoReq", "InfoRsp"}
      /\ ~(h.code \in {"InfoReq", "InfoRsp"}) => h.code # "InfoReq"
  BY DEF Request, Responses
<1>2. Answered(a) = h.code
  BY DEF Answered
<1>3. Exchange(a) = Exchange(h)
  BY <1>1, <1>2, Zenon DEF Exchange
<1>4. Exchanges(<<a>>, Responses) = <<Exchange(a)>> /\ Exchanges(<<h>>, Request) = <<Exchange(h)>>
  BY <1>1, ExchangesFew, Zenon
<1>. QED  BY <1>3, <1>4

\* A message that is no request is taken and nothing is owed for it.
LEMMA NoResponse ==
    ASSUME NEW h \in Message, h.code \notin Request, NEW msgs \in Seq(Message),
           \A k \in 1..Len(msgs) : msgs[k].code \notin Responses
    PROVE  Exchanges(msgs, Responses) = Exchanges(<<h>>, Request)
<1>1. Exchanges(msgs, Responses) = <<>>
  BY ExchangesNone
<1>2. Exchanges(<<h>>, Request) = <<>>
  BY ExchangesFew, Zenon
<1>. QED  BY <1>1, <1>2

LEMMA LinkUpMatches ==
    ASSUME IInv, AnswersMatch, NEW s \in Slot, LinkUp(s)
    PROVE  AnswersMatch'
<1>1. UNCHANGED <<toDev, pend>>
  BY DEF LinkUp
<1>2. CASE UNCHANGED toPeer
  BY <1>1, <1>2, StillMatches
<1>3. CASE ~is_pool_empty(heap, l2cap_empty_pool)
  <2>1. PICK m : m = ConnReq(gen_l2cap_sig_id, gen_l2cap_channel_id)
    OBVIOUS
  <2>2. gen_l2cap_sig_id \in Nat /\ gen_l2cap_channel_id \in Nat
    BY Drawn, ChannelAssumption
  <2>3. m \in Message /\ m.code = "ConnReq"
    BY <2>1, <2>2, OptionTypes, Constructed DEF ConnReq
  <2>4. toPeer' = [toPeer EXCEPT ![s] = Append(toPeer[s], m)]
    BY <1>3, <2>1 DEF LinkUp
  <2>5. m.code \notin Responses
    BY <2>3 DEF Responses
  <2>. QED  BY <1>1, <2>3, <2>4, <2>5, SendMatches
<1>. QED  BY <1>2, <1>3 DEF LinkUp

LEMMA ButtonMatches ==
    ASSUME IInv, AnswersMatch, rfcomm_connect_request
    PROVE  AnswersMatch'
<1>1. PICK conn \in Entry :
         toPeer' = [toPeer EXCEPT ![TestSlot] = Append(toPeer[TestSlot], Sabm(chan[conn].dcid))]
  BY DEF rfcomm_connect_request
<1>2. UNCHANGED <<toDev, pend>> /\ TestSlot \in Slot
  BY ChannelAssumption DEF rfcomm_connect_request
<1>3. PICK m : m = Sabm(chan[conn].dcid)
  OBVIOUS
<1>4. m \in Message /\ m.code \notin Responses
  <2>1. chan[conn].dcid \in Nat
    BY DEF IInv, TypeOK, Channel
  <2>. QED  BY <1>3, <2>1, OptionTypes, Constructed DEF Sabm, Responses
<1>5. toPeer' = [toPeer EXCEPT ![TestSlot] = Append(toPeer[TestSlot], m)]
  BY <1>1, <1>3
<1>. QED  BY <1>2, <1>4, <1>5, SendMatches

LEMMA LinkDownMatches ==
    ASSUME IInv, AnswersMatch, NEW s \in Slot, LinkDown(s)
    PROVE  AnswersMatch'
<1>1. /\ toPeer' = [toPeer EXCEPT ![s] = <<>>] /\ toDev' = [toDev EXCEPT ![s] = <<>>]
      /\ pend' = [pend EXCEPT ![s] = <<>>]
  BY DEF LinkDown
<1>2. /\ toPeer'[s] = <<>> /\ toDev'[s] = <<>> /\ pend'[s] = <<>>
      /\ \A t \in Slot \ {s} : /\ toPeer'[t] = toPeer[t] /\ toDev'[t] = toDev[t]
                               /\ pend'[t] = pend[t]
  BY <1>1, QueuesTyped
<1>3. Matches(toPeer'[s], toDev'[s], pend'[s])
  BY <1>2, MatchedNothing
<1>. QED  BY <1>2, <1>3, OnePeer

LEMMA ConnectionRequestMatches ==
    ASSUME IInv, AnswersMatch, NEW s \in Slot, ConnectionRequest(s)
    PROVE  AnswersMatch'
<1>1. PICK m : m = Head(toDev[s])
  OBVIOUS
<1>2. Incoming(s, {"ConnReq"})
  BY DEF ConnectionRequest
<1>3. m \in Message /\ m.code = "ConnReq" /\ m.id \in Nat /\ m.scid \in Nat
  <2>1. m \in Message /\ m.code = "ConnReq"
    BY <1>1, <1>2, Received
  <2>. QED  BY <2>1, Fields
<1>4. PICK a, b : /\ a = ConnRsp(m.id, gen_l2cap_channel_id, m.scid, "success")
                  /\ b = ConfReq(gen_l2cap_sig_id, m.scid, OurOptions)
  OBVIOUS
<1>5. Answer(s, <<a, b>>)
  BY <1>1, <1>4 DEF ConnectionRequest
<1>6. gen_l2cap_sig_id \in Nat /\ gen_l2cap_channel_id \in Nat
  BY Drawn, ChannelAssumption
<1>7. /\ a \in Message /\ a.code = "ConnRsp" /\ a.id = m.id
      /\ b \in Message /\ b.code = "ConfReq"
  BY <1>3, <1>4, <1>6, OptionTypes, Constructed DEF ConnRsp, ConfReq
<1>8. <<m.code, a.code>> = <<"ConnReq", "ConnRsp">>
  BY <1>3, <1>7
<1>9. Exchanges(<<a>>, Responses) = Exchanges(<<m>>, Request)
  BY <1>3, <1>7, <1>8, ResponseTo
<1>10. Exchanges(<<a, b>>, Responses) = Exchanges(<<a>>, Responses)
  <2>1. PICK one : one = <<a>>
    OBVIOUS
  <2>2. one \in Seq(Message)
    BY <1>7, <2>1
  <2>3. Append(one, b) = <<a, b>>
    <3>1. Append(<<a>>, b) = <<a, b>>
      BY <1>7, Two
    <3>. QED  BY <2>1, <3>1, Zenon
  <2>4. b \in Message /\ b.code \notin Responses
    BY <1>7 DEF Responses
  <2>5. Exchanges(Append(one, b), Responses) = Exchanges(one, Responses)
    BY <2>2, <2>4, ExchangesAppend, Zenon
  <2>. QED  BY <2>1, <2>3, <2>5, Zenon
<1>11. PICK msgs : msgs = <<a, b>>
  OBVIOUS
<1>12. msgs \in Seq(Message)
  BY <1>7, <1>11
<1>13. Exchanges(msgs, Responses) = Exchanges(<<Head(toDev[s])>>, Request)
  BY <1>1, <1>9, <1>10, <1>11, Zenon
<1>. QED  BY <1>2, <1>5, <1>11, <1>12, <1>13, AnswerMatches

\* One answer to a request.
LEMMA RequestMatches ==
    ASSUME IInv, AnswersMatch, NEW s \in Slot, NEW codes, Incoming(s, codes), NEW a \in Message,
           <<Head(toDev[s]).code, a.code>> \in
               {<<"ConnReq", "ConnRsp">>, <<"ConfReq", "ConfRsp">>, <<"DiscReq", "DiscRsp">>,
                <<"EchoReq", "EchoRsp">>, <<"InfoReq", "InfoRsp">>},
           Head(toDev[s]).code # "InfoReq" => a.id = Head(toDev[s]).id,
           Answer(s, <<a>>)
    PROVE  AnswersMatch'
<1>1. PICK m : m = Head(toDev[s])
  OBVIOUS
<1>2. m \in Message
  BY <1>1, Received
<1>3. Exchanges(<<a>>, Responses) = Exchanges(<<m>>, Request)
  BY <1>1, <1>2, ResponseTo
<1>4. PICK msgs : msgs = <<a>>
  OBVIOUS
<1>5. msgs \in Seq(Message)
  BY <1>4
<1>6. Exchanges(msgs, Responses) = Exchanges(<<Head(toDev[s])>>, Request)
  BY <1>1, <1>3, <1>4, Zenon
<1>. QED  BY <1>4, <1>5, <1>6, AnswerMatches

\* What is no request is answered with no response.
LEMMA OtherMatches ==
    ASSUME IInv, AnswersMatch, NEW s \in Slot, NEW codes, Incoming(s, codes),
           codes \cap Request = {}, NEW msgs \in Seq(Message),
           \A k \in 1..Len(msgs) : msgs[k].code \notin Responses, Answer(s, msgs)
    PROVE  AnswersMatch'
<1>1. PICK m : m = Head(toDev[s])
  OBVIOUS
<1>2. m \in Message /\ m.code \in codes
  BY <1>1, Received
<1>3. Exchanges(msgs, Responses) = Exchanges(<<m>>, Request)
  BY <1>2, NoResponse
<1>4. Exchanges(msgs, Responses) = Exchanges(<<Head(toDev[s])>>, Request)
  BY <1>1, <1>3, Zenon
<1>. QED  BY <1>4, AnswerMatches

LEMMA ConnectionResponseMatches ==
    ASSUME IInv, AnswersMatch, NEW s \in Slot, ConnectionResponse(s)
    PROVE  AnswersMatch'
<1>1. Incoming(s, {"ConnRsp"})
  BY DEF ConnectionResponse
<1>2. PICK m : m = Head(toDev[s])
  OBVIOUS
<1>3. m \in Message /\ m.code = "ConnRsp" /\ m.dcid \in Nat
  <2>1. m \in Message /\ m.code = "ConnRsp"
    BY <1>1, <1>2, Received
  <2>. QED  BY <2>1, Fields
<1>4. PICK b : b = ConfReq(gen_l2cap_sig_id, m.dcid, OurOptions)
  OBVIOUS
<1>5. b \in Message /\ b.code = "ConfReq"
  BY <1>3, <1>4, Drawn, OptionTypes, Constructed DEF ConfReq
<1>6. PICK msgs : msgs \in {<<>>, <<b>>} /\ Answer(s, msgs)
  BY <1>2, <1>4 DEF ConnectionResponse
<1>7. msgs \in Seq(Message) /\ \A k \in 1..Len(msgs) : msgs[k].code \notin Responses
  <2>1. CASE msgs = <<>>
    BY <2>1
  <2>2. CASE msgs = <<b>>
    BY <1>5, <2>2 DEF Responses
  <2>. QED  BY <1>6, <2>1, <2>2
<1>8. {"ConnRsp"} \cap Request = {}
  BY DEF Request
<1>. QED  BY <1>1, <1>6, <1>7, <1>8, OtherMatches

LEMMA ConfigurationRequestMatches ==
    ASSUME IInv, AnswersMatch, NEW s \in Slot, ConfigurationRequest(s)
    PROVE  AnswersMatch'
<1>. DEFINE m == Head(toDev[s])
            conn == get_l2cap_conn_from_channel_id(s, m.dcid)
            result(opt) == IF Refused(opt) = {} THEN "success" ELSE "unacceptable"
            rsp(opt, dcid) == ConfRsp(m.id, dcid, result(opt), Hints(opt))
<1>1. Incoming(s, {"ConfReq"})
  BY DEF ConfigurationRequest
<1>2. m \in Message /\ m.code = "ConfReq" /\ m.id \in Nat /\ m.opt \in Options
  <2>1. m \in Message /\ m.code = "ConfReq"
    BY <1>1, Received
  <2>. QED  BY <2>1, Fields
<1>3. chan \in [Entry -> Channel] /\ peer[s] \subseteq PeerChannel
  BY SMTT(30) DEF IInv, TypeOK
<1>4. PICK opt \in Options, dcid \in Nat : Answer(s, <<rsp(opt, dcid)>>)
  <2>1. CASE /\ conn \in Entry
             /\ Answer(s, <<rsp(get_options(chan[conn].conf_opt, m.opt), chan[conn].dcid)>>)
    <3>1. chan[conn].conf_opt \in Options /\ chan[conn].dcid \in Nat
      BY <1>3, <2>1 DEF Channel
    <3>2. get_options(chan[conn].conf_opt, m.opt) \in Options
      BY <1>2, <3>1, OptionTypes
    <3>. QED  BY <2>1, <3>1, <3>2
  <2>2. CASE \E opt \in {OurOptions, [mtu |-> "bad", fto |-> "bad"]},
                dcid \in {0} \cup {c.own : c \in {d \in peer[s] : d.dev = m.dcid}} :
                   Answer(s, <<rsp(opt, dcid)>>)
    <3>1. PICK opt \in {OurOptions, [mtu |-> "bad", fto |-> "bad"]},
               dcid \in {0} \cup {c.own : c \in {d \in peer[s] : d.dev = m.dcid}} :
                   Answer(s, <<rsp(opt, dcid)>>)
      BY <2>2
    <3>2. opt \in Options
      BY OptionTypes DEF Options, OptionValue
    <3>3. dcid \in Nat
      BY <1>3 DEF PeerChannel
    <3>. QED  BY <3>1, <3>2, <3>3
  <2>. QED  BY <2>1, <2>2 DEF ConfigurationRequest
<1>5. PICK a : a = rsp(opt, dcid)
  OBVIOUS
<1>6. a \in Message /\ a.code = "ConfRsp" /\ a.id = m.id
  <2>1. Hints(opt) \in Options
    BY OptionTypes
  <2>2. result(opt) \in {"success", "unacceptable", "rejected"}
    OBVIOUS
  <2>3. ConfRsp(m.id, dcid, result(opt), Hints(opt)) \in Message
    <3>. HIDE DEF result
    <3>. QED  BY <1>2, <2>1, <2>2, Constructed
  <2>. QED  BY <1>5, <2>3 DEF ConfRsp
<1>7. <<m.code, a.code>> = <<"ConfReq", "ConfRsp">> /\ a.id = m.id
  BY <1>2, <1>6
<1>8. Answer(s, <<a>>)
  BY <1>4, <1>5
<1>. HIDE DEF rsp
<1>. QED  BY <1>1, <1>6, <1>7, <1>8, RequestMatches, SMTT(30)

LEMMA ConfigurationResponseMatches ==
    ASSUME IInv, AnswersMatch, NEW s \in Slot, ConfigurationResponse(s)
    PROVE  AnswersMatch'
<1>1. Incoming(s, {"ConfRsp"}) /\ Answer(s, <<>>)
  BY DEF ConfigurationResponse
<1>2. {"ConfRsp"} \cap Request = {}
  BY DEF Request
<1>3. <<>> \in Seq(Message) /\ \A k \in 1..Len(<<>>) : <<>>[k].code \notin Responses
  OBVIOUS
<1>. QED  BY <1>1, <1>2, <1>3, OtherMatches

LEMMA AnswererMatches ==
    ASSUME IInv, AnswersMatch, NEW s \in Slot,
           DisconnectionRequest(s) \/ EchoRequest(s) \/ InfoRequest(s) \/ CommandReject(s)
    PROVE  AnswersMatch'
<1>. DEFINE m == Head(toDev[s])
<1>1. CASE DisconnectionRequest(s)
  <2>1. PICK a : a = DiscRsp(m.id, m.dcid, m.scid)
    OBVIOUS
  <2>2. Incoming(s, {"DiscReq"}) /\ Answer(s, <<a>>)
    BY <1>1, <2>1 DEF DisconnectionRequest
  <2>3. m \in Message /\ m.code = "DiscReq" /\ m.id \in Nat /\ m.dcid \in Nat /\ m.scid \in Nat
    <3>1. m \in Message /\ m.code = "DiscReq"
      BY <2>2, Received
    <3>. QED  BY <3>1, Fields
  <2>4. a \in Message /\ a.code = "DiscRsp" /\ a.id = m.id
    BY <2>1, <2>3, OptionTypes, Constructed DEF DiscRsp
  <2>5. <<m.code, a.code>> = <<"DiscReq", "DiscRsp">> /\ a.id = m.id
    BY <2>3, <2>4
  <2>. QED  BY <2>2, <2>4, <2>5, RequestMatches
<1>2. CASE EchoRequest(s)
  <2>1. PICK a : a = Bare("EchoRsp", m.id)
    OBVIOUS
  <2>2. Incoming(s, {"EchoReq"}) /\ Answer(s, <<a>>)
    BY <1>2, <2>1 DEF EchoRequest
  <2>3. m \in Message /\ m.code = "EchoReq" /\ m.id \in Nat
    <3>1. m \in Message /\ m.code = "EchoReq"
      BY <2>2, Received
    <3>. QED  BY <3>1, Fields
  <2>4. a \in Message /\ a.code = "EchoRsp" /\ a.id = m.id
    BY <2>1, <2>3, OptionTypes, Constructed DEF Bare
  <2>5. <<m.code, a.code>> = <<"EchoReq", "EchoRsp">> /\ a.id = m.id
    BY <2>3, <2>4
  <2>. QED  BY <2>2, <2>4, <2>5, RequestMatches
<1>3. CASE InfoRequest(s)
  <2>1. PICK a : a = Bare("InfoRsp", 0)
    OBVIOUS
  <2>2. Incoming(s, {"InfoReq"}) /\ Answer(s, <<a>>)
    BY <1>3, <2>1 DEF InfoRequest
  <2>3. m \in Message /\ m.code = "InfoReq"
    BY <2>2, Received
  <2>4. a \in Message /\ a.code = "InfoRsp"
    BY <2>1, OptionTypes, Constructed DEF Bare
  <2>5. <<m.code, a.code>> = <<"InfoReq", "InfoRsp">>
    BY <2>3, <2>4
  <2>. QED  BY <2>2, <2>3, <2>4, <2>5, RequestMatches
<1>4. CASE CommandReject(s)
  <2>1. Incoming(s, {"Reject"}) /\ Answer(s, <<>>)
    BY <1>4 DEF CommandReject
  <2>2. {"Reject"} \cap Request = {}
    BY DEF Request
  <2>3. <<>> \in Seq(Message) /\ \A k \in 1..Len(<<>>) : <<>>[k].code \notin Responses
    OBVIOUS
  <2>. QED  BY <2>1, <2>2, <2>3, OtherMatches
<1>. QED  BY <1>1, <1>2, <1>3, <1>4

LEMMA PeerConnectResponseMatches ==
    ASSUME IInv, AnswersMatch, NEW s \in Slot, PeerConnectResponse(s)
    PROVE  AnswersMatch'
<1>. DEFINE m == Head(toPeer[s])
            reply(result, dcid) == ConnRsp(m.id, dcid, m.scid, result)
<1>1. /\ toPeer[s] # <<>> /\ m.id \in Nat /\ m.scid \in Nat /\ UNCHANGED pend
      /\ m.code \notin Responses
  <2>1. toPeer[s] # <<>> /\ m \in Message /\ m.code = "ConnReq" /\ UNCHANGED pend
    BY PeerReceived DEF PeerConnectResponse
  <2>. QED  BY <2>1, Fields DEF Responses
<1>2. PICK before, a : /\ before = <<>> \/ \E b \in Message : b.code = "ConnRsp" /\ before = <<b>>
                       /\ a \in Message /\ a.code = "ConnRsp"
                       /\ Consume(s, before \o <<a>>)
  <2>1. ASSUME NEW result \in {"success", "pending", "refused"}, NEW dcid \in Nat
        PROVE  reply(result, dcid) \in Message /\ reply(result, dcid).code = "ConnRsp"
    BY <1>1, OptionTypes, Constructed DEF ConnRsp
  <2>2. PICK result \in ConnectAnswers[s] :
           \/ /\ result = "refused"
              /\ Consume(s, <<reply(result, 0)>>)
           \/ \E own \in PeerNumbers(s) :
                 Consume(s, (IF result = "pending" THEN <<reply(result, 0)>> ELSE <<>>)
                            \o <<reply("success", own)>>)
    BY DEF PeerConnectResponse
  <2>3. result \in {"success", "pending", "refused"}
    BY AnswerAssumption
  <2>4. reply(result, 0) \in Message /\ reply(result, 0).code = "ConnRsp"
    BY <2>1, <2>3
  <2>. HIDE DEF reply
  <2>5. CASE Consume(s, <<reply(result, 0)>>)
    <3>1. <<>> \o <<reply(result, 0)>> = <<reply(result, 0)>>
      OBVIOUS
    <3>. QED  BY <2>4, <2>5, <3>1
  <2>6. ASSUME NEW own \in PeerNumbers(s),
               Consume(s, (IF result = "pending" THEN <<reply(result, 0)>> ELSE <<>>)
                          \o <<reply("success", own)>>)
        PROVE  \E b4, e : /\ b4 = <<>> \/ \E b \in Message : b.code = "ConnRsp" /\ b4 = <<b>>
                          /\ e \in Message /\ e.code = "ConnRsp"
                          /\ Consume(s, b4 \o <<e>>)
    <3>1. PICK b4 : b4 = IF result = "pending" THEN <<reply(result, 0)>> ELSE <<>>
      OBVIOUS
    <3>2. b4 = <<>> \/ b4 = <<reply(result, 0)>>
      BY <3>1
    <3>3. own \in Nat
      BY Numbers
    <3>4. reply("success", own) \in Message /\ reply("success", own).code = "ConnRsp"
      BY <2>1, <3>3
    <3>5. Consume(s, b4 \o <<reply("success", own)>>)
      BY <2>6, <3>1, Zenon
    <3>. QED  BY <2>4, <3>2, <3>4, <3>5, Zenon
  <2>. QED  BY <2>2, <2>5, <2>6
<1>3. PICK msgs : msgs = before \o <<a>>
  OBVIOUS
<1>4. msgs \in Seq(Message) /\ \A k \in 1..Len(msgs) : msgs[k].code \notin Request
  <2>1. CASE before = <<>>
    <3>1. msgs = <<a>>
      BY <1>3, <2>1
    <3>. QED  BY <1>2, <3>1 DEF Request
  <2>2. CASE \E b \in Message : b.code = "ConnRsp" /\ before = <<b>>
    <3>1. PICK b \in Message : b.code = "ConnRsp" /\ before = <<b>>
      BY <2>2
    <3>2. msgs = <<b, a>>
      <4>1. PICK one : one = <<b>>
        OBVIOUS
      <4>2. one \in Seq(Message) /\ msgs = one \o <<a>>
        BY <1>3, <3>1, <4>1
      <4>3. msgs = Append(one, a)
        BY <1>2, <4>2, AppendIsConcat
      <4>4. Append(<<b>>, a) = <<b, a>>
        BY <1>2, <3>1, Two
      <4>. QED  BY <4>1, <4>3, <4>4, Zenon
    <3>. QED  BY <1>2, <3>1, <3>2 DEF Request
  <2>. QED  BY <1>2, <2>1, <2>2
<1>. HIDE DEF m
<1>. QED  BY <1>1, <1>2, <1>3, <1>4, ConsumeMatches DEF m

LEMMA PeerConfigureResponseMatches ==
    ASSUME IInv, AnswersMatch, NEW s \in Slot, PeerConfigureResponse(s)
    PROVE  AnswersMatch'
<1>. DEFINE m == Head(toPeer[s])
<1>1. /\ toPeer[s] # <<>> /\ m.id \in Nat /\ m.code \notin Responses /\ UNCHANGED pend
  <2>1. toPeer[s] # <<>> /\ m \in Message /\ m.code = "ConfReq" /\ UNCHANGED pend
    BY PeerReceived DEF PeerConfigureResponse
  <2>. QED  BY <2>1, Fields DEF Responses
<1>2. PICK a \in Message : a.code \in {"ConfRsp", "Reject"} /\ Consume(s, <<a>>)
  <2>1. CASE \E c \in peer[s], r \in ConfigAnswers[s] :
                 Consume(s, <<ConfRsp(m.id, c.dev, r.result, r.opt)>>)
    <3>1. PICK c \in peer[s], r \in ConfigAnswers[s] :
             Consume(s, <<ConfRsp(m.id, c.dev, r.result, r.opt)>>)
      BY <2>1
    <3>2. c.dev \in Nat
      BY DEF IInv, TypeOK, PeerChannel
    <3>3. r.result \in {"success", "rejected"} /\ r.opt \in Options
      BY AnswerAssumption
    <3>4. ConfRsp(m.id, c.dev, r.result, r.opt) \in Message
      BY <1>1, <3>2, <3>3, Constructed
    <3>5. ConfRsp(m.id, c.dev, r.result, r.opt).code = "ConfRsp"
      BY DEF ConfRsp
    <3>. QED  BY <3>1, <3>4, <3>5
  <2>2. CASE Consume(s, <<Bare("Reject", m.id)>>)
    <3>1. Bare("Reject", m.id) \in Message /\ Bare("Reject", m.id).code = "Reject"
      BY <1>1, OptionTypes, Constructed DEF Bare
    <3>. QED  BY <2>2, <3>1
  <2>. QED  BY <2>1, <2>2 DEF PeerConfigureResponse
<1>3. PICK msgs : msgs = <<a>>
  OBVIOUS
<1>4. msgs \in Seq(Message) /\ \A k \in 1..Len(msgs) : msgs[k].code \notin Request
  BY <1>2, <1>3 DEF Request
<1>. QED  BY <1>1, <1>2, <1>3, <1>4, ConsumeMatches

LEMMA PeerSabmMatches ==
    ASSUME IInv, AnswersMatch, NEW s \in Slot, PeerSabm(s)
    PROVE  AnswersMatch'
<1>1. /\ toPeer[s] # <<>> /\ Head(toPeer[s]).code = "SABM" /\ Consume(s, <<>>)
      /\ UNCHANGED pend
  BY PeerReceived DEF PeerSabm
<1>2. Head(toPeer[s]).code \notin Responses
  BY <1>1 DEF Responses
<1>3. <<>> \in Seq(Message) /\ \A k \in 1..Len(<<>>) : <<>>[k].code \notin Request
  OBVIOUS
<1>. QED  BY <1>1, <1>2, <1>3, ConsumeMatches

LEMMA PeerAnsweredMatches ==
    ASSUME IInv, AnswersMatch, NEW s \in Slot, PeerAnswered(s)
    PROVE  AnswersMatch'
<1>1. /\ toPeer[s] # <<>> /\ Head(toPeer[s]).code \in Responses /\ pend[s] # <<>>
      /\ toPeer' = [toPeer EXCEPT ![s] = Tail(toPeer[s])]
      /\ toDev' = [toDev EXCEPT ![s] = toDev[s] \o <<>>]
      /\ pend' = [pend EXCEPT ![s] = Tail(pend[s])]
  BY DEF PeerAnswered, Arrived, Consume
<1>2. toDev[s] \o <<>> = toDev[s]
  BY QueuesTyped, ConcatEmptySeq
<1>3. /\ toPeer'[s] = Tail(toPeer[s]) /\ toDev'[s] = toDev[s] /\ pend'[s] = Tail(pend[s])
      /\ \A t \in Slot \ {s} : /\ toPeer'[t] = toPeer[t] /\ toDev'[t] = toDev[t]
                               /\ pend'[t] = pend[t]
  BY <1>1, <1>2, QueuesTyped
<1>4. PICK p, d, r : p = toPeer[s] /\ d = toDev[s] /\ r = pend[s]
  OBVIOUS
<1>5. /\ p \in Seq(Message) /\ d \in Seq(Message) /\ r \in Seq(Asked)
      /\ p # <<>> /\ r # <<>> /\ Head(p).code \in Responses /\ Matches(p, d, r)
  BY <1>1, <1>4, QueuesTyped, AllMatch
<1>6. Matches(Tail(p), d, Tail(r))
  BY <1>5, MatchedAnswered
<1>. QED  BY <1>3, <1>4, <1>6, OnePeer

\* A peer's own requests.
LEMMA AskerMatches ==
    ASSUME IInv, AnswersMatch, NEW s \in Slot,
           \/ PeerConnect(s) \/ PeerDisconnect(s) \/ PeerPing(s)
           \/ \E own \in PeerNumbers(s) : PeerConfigure(s, own)
    PROVE  AnswersMatch'
<1>1. NewId(s) \in Nat
  BY NextId
<1>2. \A c \in peer[s] : c.dev \in Nat /\ c.own \in Nat /\ c.opt \in Options
  BY DEF IInv, TypeOK, PeerChannel
<1>3. PICK m \in Message : m.code \in Request /\ m.id \in Nat /\ Ask(s, m)
  <2>1. CASE PeerConnect(s)
    <3>1. PICK own \in PeerNumbers(s) : Ask(s, ConnReq(NewId(s), own))
      BY <2>1 DEF PeerConnect
    <3>2. ConnReq(NewId(s), own) \in Message
      BY <1>1, OptionTypes, Constructed, Numbers
    <3>3. ConnReq(NewId(s), own).code \in Request /\ ConnReq(NewId(s), own).id \in Nat
      BY <1>1 DEF ConnReq, Request
    <3>. QED  BY <3>1, <3>2, <3>3
  <2>2. CASE PeerDisconnect(s)
    <3>1. PICK c \in peer[s] : Ask(s, DiscReq(NewId(s), c.dev, c.own))
      BY <2>2 DEF PeerDisconnect
    <3>2. DiscReq(NewId(s), c.dev, c.own) \in Message
      BY <1>1, <1>2, OptionTypes, Constructed
    <3>3. /\ DiscReq(NewId(s), c.dev, c.own).code \in Request
          /\ DiscReq(NewId(s), c.dev, c.own).id \in Nat
      BY <1>1 DEF DiscReq, Request
    <3>. QED  BY <3>1, <3>2, <3>3
  <2>3. CASE PeerPing(s)
    <3>1. PICK code \in {"EchoReq", "InfoReq"} : Ask(s, Bare(code, NewId(s)))
      BY <2>3 DEF PeerPing
    <3>2. Bare(code, NewId(s)) \in Message
      BY <1>1, OptionTypes, Constructed
    <3>3. Bare(code, NewId(s)).code \in Request /\ Bare(code, NewId(s)).id \in Nat
      BY <1>1 DEF Bare, Request
    <3>. QED  BY <3>1, <3>2, <3>3
  <2>4. ASSUME NEW own \in PeerNumbers(s), PeerConfigure(s, own)
        PROVE  \E m \in Message : m.code \in Request /\ m.id \in Nat /\ Ask(s, m)
    <3>1. PICK c \in peer[s] :
             \E opt \in IF c.cfg = "new" THEN ProposedOptions[own % 100] ELSE {c.opt} :
                Ask(s, ConfReq(NewId(s), c.dev, opt))
      BY <2>4 DEF PeerConfigure
    <3>2. ProposedOptions[own % 100] \subseteq Options
      <4>1. own % 100 \in 1..(L2CAP_CONN_POOL_SIZE + MaxRequests)
        BY Numbers
      <4>. QED  BY <4>1, AnswerAssumption
    <3>3. PICK opt \in Options : Ask(s, ConfReq(NewId(s), c.dev, opt))
      BY <1>2, <3>1, <3>2
    <3>4. ConfReq(NewId(s), c.dev, opt) \in Message
      BY <1>1, <1>2, Constructed
    <3>5. ConfReq(NewId(s), c.dev, opt).code \in Request /\ ConfReq(NewId(s), c.dev, opt).id \in Nat
      BY <1>1 DEF ConfReq, Request
    <3>. QED  BY <3>3, <3>4, <3>5
  <2>. QED  BY <2>1, <2>2, <2>3, <2>4
<1>4. UNCHANGED toPeer
  BY DEF PeerConnect, PeerDisconnect, PeerPing, PeerConfigure
<1>. QED  BY <1>3, <1>4, AskMatches

LEMMA NextMatches == IInv /\ AnswersMatch /\ [Next]_vars => AnswersMatch'
<1>. SUFFICES ASSUME IInv, AnswersMatch, [Next]_vars PROVE AnswersMatch'
  OBVIOUS
<1>1. CASE rfcomm_connect_request
  BY <1>1, ButtonMatches
<1>2. ASSUME NEW s \in Slot, LinkUp(s) PROVE AnswersMatch'
  BY <1>2, LinkUpMatches
<1>3. ASSUME NEW s \in Slot, LinkDown(s) PROVE AnswersMatch'
  BY <1>3, LinkDownMatches
<1>4. ASSUME NEW s \in Slot, Receive(s) PROVE AnswersMatch'
  BY <1>4, ConnectionRequestMatches, ConnectionResponseMatches, ConfigurationRequestMatches,
     ConfigurationResponseMatches, AnswererMatches DEF Receive
<1>5. ASSUME NEW s \in Slot, PeerReceive(s) PROVE AnswersMatch'
  BY <1>5, PeerConnectResponseMatches, PeerConfigureResponseMatches, PeerAnsweredMatches,
     PeerSabmMatches DEF PeerReceive
<1>6. ASSUME NEW s \in Askers, PeerConnect(s) \/ PeerDisconnect(s) \/ PeerPing(s)
      PROVE  AnswersMatch'
  BY <1>6, ChannelAssumption, AskerMatches
<1>7. ASSUME NEW s \in Askers, NEW own \in PeerNumbers(s), PeerConfigure(s, own)
      PROVE  AnswersMatch'
  BY <1>7, ChannelAssumption, AskerMatches
<1>8. CASE UNCHANGED vars
  BY <1>8, StillMatches DEF vars, device
<1>. QED  BY <1>1, <1>2, <1>3, <1>4, <1>5, <1>6, <1>7, <1>8 DEF Next

LEMMA InitMatches == Init => AnswersMatch
<1>. SUFFICES ASSUME Init, NEW s \in Slot PROVE Matches(toPeer[s], toDev[s], pend[s])
  BY AllMatch
<1>1. toPeer[s] = <<>> /\ toDev[s] = <<>> /\ pend[s] = <<>>
  BY DEF Init
<1>. QED  BY <1>1, MatchedNothing

\* The answers under way to a peer and those its requests under way will get are
\* those of the requests it has made: one each, in their order and under their
\* identifiers, for any number of peers, channels and requests.
THEOREM RequestsAreAnswered == Spec => []AnswersMatch
BY InitIInv, NextIInv, InitMatches, NextMatches, PTL DEF Spec

-----------------------------------------------------------------------------
(* The channels: the lists of the pool, and what the peers were promised.    *)

\* q is the list behind the head p.
Linked(h, p, q) ==
    /\ q \in Seq(Entry)
    /\ h.head[p] = IF q = <<>> THEN NULL ELSE q[1]
    /\ \A i \in 1..Len(q) : h.next[q[i]] = IF i = Len(q) THEN NULL ELSE q[i + 1]

\* The entries in the list of a slot.
Owned(s) == Range(Chain(heap, s))

\* The entries of q are in use, each put in front of older ones.
InUse(q) == \A i \in 1..Len(q) : Taken(q[i]) /\ q[i] >= Len(q) - i + 1

\* The lists of the slots end, and no entry is in two of them.
ListsLinked ==
    /\ \A s \in Slot : Linked(heap, s, Chain(heap, s)) /\ InUse(Chain(heap, s))
    /\ \A s, t \in Slot : s # t => Owned(s) \cap Owned(t) = {}

\* The numbers of its own channels that a peer sends, and is sent with a SABM.
NamesPeer(m, s) ==
    /\ m.code = "ConnReq" => m.scid \in PeerNumbers(s)
    /\ m.code = "ConnRsp" /\ m.result = "success" => m.dcid \in PeerNumbers(s)
SabmGood(m, s) == m.code = "SABM" => s = TestSlot /\ m.dcid \in PeerNumbers(s) \cup {0}

\* An entry knows a number of the peer whose list it is in, or none.
NumbersKnown(s) ==
    /\ \A e \in Owned(s) : chan[e].dcid \in PeerNumbers(s) \cup {0}
    /\ \A m \in Range(toDev[s]) : NamesPeer(m, s)
    /\ \A m \in Range(toPeer[s]) : SabmGood(m, s)

\* A free entry has none.
FreeEntriesBlank == \A e \in Entry : ~Taken(e) => chan[e].dcid = 0

\* A message that gives a peer a channel number of the device.
Offer(m) == m.code \in {"ConnReq", "ConnRsp"}
Number(m) == IF m.code = "ConnReq" THEN m.scid ELSE m.dcid

OfferedOnce(q) == \A i, j \in 1..Len(q) :
                     Offer(q[i]) /\ Offer(q[j]) /\ Number(q[i]) = Number(q[j]) => i = j

\* The peer's acceptance of the channel c.
Accepts(r, c) == /\ r.code = "ConnRsp" /\ r.result = "success"
                 /\ r.scid = c.dev /\ r.dcid = c.own

\* A number on its way to the peer names an entry and no channel of the peer.
OffersGood(s) ==
    \A m \in Range(toPeer[s]) :
        Offer(m) =>
            /\ \E e \in Owned(s) :
                  /\ chan[e].cid = Number(m)
                  /\ m.code = "ConnRsp" => /\ chan[e].connect_initiate = "REMOTE"
                                           /\ chan[e].dcid = m.scid
            /\ \A c \in peer[s] : c.dev # Number(m)
            /\ \A r \in Range(toDev[s]) : r.code = "ConnRsp" => r.scid # Number(m)

\* An acceptance is of the channel that has the device's number.
AcceptancesGood(s) ==
    \A r \in Range(toDev[s]), c \in peer[s] :
        r.code = "ConnRsp" /\ r.result = "success" /\ c.dev = r.scid => c.own = r.dcid

\* A channel of the peer has its entry, which has the peer's number or will get it.
ChannelsGood(s) ==
    \A c \in peer[s] : c.dev # 0 =>
        \E e \in Owned(s) :
           /\ chan[e].cid = c.dev
           /\ chan[e].dcid = c.own \/ \E r \in Range(toDev[s]) : Accepts(r, c)

PairsUnique(s) ==
    \A c, d \in peer[s] : /\ c.own = d.own => c.dev = d.dev
                          /\ c.dev = d.dev /\ c.dev # 0 => c.own = d.own

Promise(s) == /\ OffersGood(s) /\ OfferedOnce(toPeer[s]) /\ AcceptancesGood(s)
              /\ ChannelsGood(s) /\ PairsUnique(s)

PoolLeft == ~is_pool_empty(heap, l2cap_empty_pool)

PromisesKept == PoolLeft => \A s \in Slot : Promise(s)

ChannelsKnown == /\ FreeEntriesBlank
                 /\ \A s \in Slot : NumbersKnown(s)
                 /\ PromisesKept

\* The inductive invariant.
ChannelInv == IInv /\ ListsLinked /\ ChannelsKnown

-----------------------------------------------------------------------------
(* Lists: what a traversal of linked entries returns                         *)

\* The walk of Chain: what is behind node n, at most k entries of it.
IsWalk(h, from, K) ==
    from = [k \in 0..K |-> [n \in Node |->
               IF n = NULL \/ k = 0 THEN <<>> ELSE <<n>> \o from[k - 1][h.next[n]]]]

Walk(h) == CHOOSE from : IsWalk(h, from, N)

LEMMA WalkExists ==
    ASSUME NEW h
    PROVE  IsWalk(h, Walk(h), N)
<1>. DEFINE S == {K \in Nat : \E from : IsWalk(h, from, K)}
<1>1. 0 \in S
  <2>. DEFINE from == [k \in 0..0 |-> [n \in Node |-> <<>>]]
  <2>1. from = [k \in 0..0 |-> [n \in Node |->
                  IF n = NULL \/ k = 0 THEN <<>> ELSE <<n>> \o from[k - 1][h.next[n]]]]
    OBVIOUS
  <2>. QED  BY <2>1 DEF IsWalk
<1>2. ASSUME NEW K \in Nat, K \in S PROVE K + 1 \in S
  <2>1. PICK g : IsWalk(h, g, K)
    BY <1>2
  <2>. DEFINE row(k, prev) == [n \in Node |-> IF n = NULL \/ k = 0 THEN <<>>
                                              ELSE <<n>> \o prev[h.next[n]]]
              new == [k \in 0..(K + 1) |-> IF k = K + 1 THEN row(K + 1, g[K]) ELSE g[k]]
  <2>2. \A k \in 0..K : g[k] = row(k, g[k - 1])
    BY <2>1 DEF IsWalk
  <2>3. \A k \in 0..K : new[k] = g[k]
    OBVIOUS
  <2>4. ASSUME NEW k \in 0..(K + 1) PROVE new[k] = row(k, new[k - 1])
    <3>1. CASE k = K + 1
      <4>1. k - 1 = K /\ K \in 0..K /\ K + 1 \in 0..(K + 1)
        BY <3>1
      <4>2. new[K] = g[K]
        BY <2>3, <4>1
      <4>3. new[k] = row(k, g[K])
        BY <3>1
      <4>4. new[k - 1] = g[K]
        BY <4>1, <4>2
      <4>. HIDE DEF new, row
      <4>. QED  BY <4>3, <4>4
    <3>2. CASE k = 0
      <4>1. new[k] = g[k] /\ k \in 0..K
        BY <3>2, <2>3
      <4>2. \A p, q : row(0, p) = row(0, q)
        OBVIOUS
      <4>. HIDE DEF new, row
      <4>. QED  BY <3>2, <4>1, <4>2, <2>2
    <3>3. CASE k \in 1..K
      <4>1. new[k] = g[k] /\ k \in 0..K /\ k - 1 \in 0..K
        BY <3>3, <2>3
      <4>2. new[k - 1] = g[k - 1]
        BY <4>1, <2>3
      <4>. HIDE DEF new, row
      <4>. QED  BY <4>1, <4>2, <2>2
    <3>4. k = K + 1 \/ k = 0 \/ k \in 1..K
      OBVIOUS
    <3>. HIDE DEF new, row
    <3>. QED  BY <3>1, <3>2, <3>3, <3>4
  <2>5. new = [k \in 0..(K + 1) |-> row(k, new[k - 1])]
    <3>1. new = [k \in 0..(K + 1) |-> new[k]]
      OBVIOUS
    <3>. HIDE DEF new, row
    <3>. QED  BY <2>4, <3>1
  <2>6. IsWalk(h, new, K + 1)
    <3>. HIDE DEF new
    <3>. QED  BY <2>5 DEF IsWalk
  <2>. QED  BY <2>6
<1>3. Nat \subseteq S
  <2>. HIDE DEF S
  <2>. QED  BY <1>1, <1>2, SetInduction
<1>4. N \in Nat
  BY PoolAssumption DEF N
<1>5. \E from : IsWalk(h, from, N)
  BY <1>3, <1>4
<1>. QED  BY <1>5 DEF Walk

LEMMA ChainIsWalk ==
    ASSUME NEW h, NEW p
    PROVE  Chain(h, p) = Walk(h)[N][h.head[p]]
BY Zenon DEF Chain, Walk, IsWalk, N

LEMMA WalkStep ==
    ASSUME NEW h, NEW k \in 0..N
    PROVE  /\ Walk(h)[k][NULL] = <<>>
           /\ \A n \in Entry : k # 0 => Walk(h)[k][n] = <<n>> \o Walk(h)[k - 1][h.next[n]]
<1>. DEFINE w == Walk(h)
<1>1. w = [i \in 0..N |-> [n \in Node |->
               IF n = NULL \/ i = 0 THEN <<>> ELSE <<n>> \o w[i - 1][h.next[n]]]]
  BY WalkExists DEF IsWalk
<1>. HIDE DEF w
<1>2. w[k] = [n \in Node |-> IF n = NULL \/ k = 0 THEN <<>> ELSE <<n>> \o w[k - 1][h.next[n]]]
  BY <1>1
<1>3. NULL \in Node /\ \A n \in Entry : n \in Node /\ n # NULL
  BY PoolAssumption DEF Node, NULL, Entry
<1>4. w[k][NULL] = <<>> /\ \A n \in Entry : k # 0 => w[k][n] = <<n>> \o w[k - 1][h.next[n]]
  BY <1>2, <1>3
<1>. QED  BY <1>4 DEF w

\* The end of a list from its i-th entry on.
From(q, i) == [t \in 1..(Len(q) - i + 1) |-> q[t + i - 1]]

LEMMA FromStep ==
    ASSUME NEW S, NEW q \in Seq(S), NEW i \in 1..Len(q)
    PROVE  From(q, i) = <<q[i]>> \o From(q, i + 1)
<1>1. Len(q) \in Nat /\ \A t \in 1..Len(q) : q[t] \in S
  BY LenProperties, ElementOfSeq
<1>2. From(q, i) \in Seq(S) /\ Len(From(q, i)) = Len(q) - i + 1
  <2>1. Len(q) - i + 1 \in Nat /\ \A t \in 1..(Len(q) - i + 1) : q[t + i - 1] \in S
    BY <1>1
  <2>. QED  BY <2>1, IsASeq DEF From
<1>3. From(q, i + 1) \in Seq(S) /\ Len(From(q, i + 1)) = Len(q) - i
  <2>1. /\ Len(q) - (i + 1) + 1 \in Nat /\ Len(q) - (i + 1) + 1 = Len(q) - i
        /\ \A t \in 1..(Len(q) - (i + 1) + 1) : q[t + (i + 1) - 1] \in S
    BY <1>1
  <2>. QED  BY <2>1, IsASeq DEF From
<1>4. <<q[i]>> \in Seq(S) /\ Len(<<q[i]>>) = 1 /\ <<q[i]>>[1] = q[i]
  BY <1>1
<1>5. PICK head : head = <<q[i]>>
  OBVIOUS
<1>6. /\ Len(head \o From(q, i + 1)) = Len(q) - i + 1
      /\ head \o From(q, i + 1) \in Seq(S)
      /\ \A t \in 1..(Len(q) - i + 1) :
            (head \o From(q, i + 1))[t] = IF t = 1 THEN q[i] ELSE From(q, i + 1)[t - 1]
  <2>1. Len(head) = 1 /\ head[1] = q[i] /\ head \in Seq(S)
    BY <1>4, <1>5
  <2>2. 1 + (Len(q) - i) = Len(q) - i + 1
    BY <1>1
  <2>3. PICK rest : rest = From(q, i + 1)
    OBVIOUS
  <2>4. rest \in Seq(S) /\ Len(rest) = Len(q) - i
    BY <1>3, <2>3
  <2>5. /\ head \o rest \in Seq(S) /\ Len(head \o rest) = 1 + (Len(q) - i)
        /\ \A t \in 1..(1 + (Len(q) - i)) :
              (head \o rest)[t] = IF t <= 1 THEN head[t] ELSE rest[t - 1]
    <3>1. /\ head \o rest \in Seq(S) /\ Len(head \o rest) = Len(head) + Len(rest)
          /\ \A t \in 1..(Len(head) + Len(rest)) :
                (head \o rest)[t] = IF t <= Len(head) THEN head[t] ELSE rest[t - Len(head)]
      BY <2>1, <2>4, ConcatProperties
    <3>. QED  BY <2>1, <2>4, <3>1
  <2>6. \A t \in 1..(Len(q) - i + 1) : t <= 1 => t = 1
    BY <1>1
  <2>7. 1 \in 1..(Len(q) - i + 1) /\ \A t \in 1..(Len(q) - i + 1) : t = 1 => t <= 1
    BY <1>1
  <2>. QED  BY <2>1, <2>2, <2>3, <2>5, <2>6, <2>7
<1>7. ASSUME NEW t \in 1..(Len(q) - i + 1)
      PROVE  (head \o From(q, i + 1))[t] = From(q, i)[t]
  <2>1. From(q, i)[t] = q[t + i - 1]
    BY DEF From
  <2>2. CASE t = 1
    BY <1>6, <2>1, <2>2, <1>1, SMTT(30)
  <2>3. CASE t # 1
    <3>1. t - 1 \in 1..(Len(q) - (i + 1) + 1) /\ (t - 1) + (i + 1) - 1 = t + i - 1
      BY <1>1, <2>3
    <3>2. From(q, i + 1)[t - 1] = q[t + i - 1]
      BY <3>1 DEF From
    <3>. QED  BY <1>6, <2>1, <2>3, <3>2
  <2>. QED  BY <2>2, <2>3
<1>. HIDE DEF From
<1>. QED  BY <1>2, <1>5, <1>6, <1>7, SeqEqual, ZenonT(40)

\* A list that is linked and not longer than the array is what Chain returns.
LEMMA ChainOfLinked ==
    ASSUME NEW h, NEW p, NEW q, Linked(h, p, q), Len(q) <= N
    PROVE  Chain(h, p) = q
<1>. DEFINE L == Len(q)
            node(i) == IF i > L THEN NULL ELSE q[i]
            S == {j \in Nat : \A i \in 1..(L + 1), k \in 0..N :
                                 j = L + 1 - i /\ k >= j => Walk(h)[k][node(i)] = From(q, i)}
<1>1. q \in Seq(Entry) /\ L \in Nat /\ N \in Nat /\ \A i \in 1..L : q[i] \in Entry
  BY LenProperties, ElementOfSeq, PoolAssumption DEF Linked, N
<1>2. \A i \in 1..L : h.next[q[i]] = node(i + 1)
  BY <1>1 DEF Linked
<1>3. h.head[p] = node(1)
  <2>1. q = <<>> <=> L = 0
    BY <1>1, EmptySeq
  <2>. QED  BY <1>1, <2>1 DEF Linked
<1>4. 0 \in S
  <2>1. ASSUME NEW i \in 1..(L + 1), NEW k \in 0..N, 0 = L + 1 - i
        PROVE  Walk(h)[k][node(i)] = From(q, i)
    <3>1. i = L + 1 /\ node(i) = NULL
      BY <1>1, <2>1
    <3>2. From(q, i) = <<>>
      BY <1>1, <3>1 DEF From
    <3>. QED  BY <3>1, <3>2, WalkStep
  <2>. QED  BY <2>1
<1>5. ASSUME NEW j \in Nat, j \in S PROVE j + 1 \in S
  <2>1. ASSUME NEW i \in 1..(L + 1), NEW k \in 0..N, j + 1 = L + 1 - i, k >= j + 1
        PROVE  Walk(h)[k][node(i)] = From(q, i)
    <3>1. /\ i \in 1..L /\ i + 1 \in 1..(L + 1) /\ j = L + 1 - (i + 1)
          /\ k # 0 /\ k - 1 \in 0..N /\ k - 1 >= j
      BY <1>1, <2>1
    <3>2. node(i) = q[i] /\ q[i] \in Entry /\ h.next[q[i]] = node(i + 1)
      BY <1>1, <1>2, <3>1
    <3>3. Walk(h)[k - 1][node(i + 1)] = From(q, i + 1)
      BY <1>5, <3>1
    <3>4. Walk(h)[k][q[i]] = <<q[i]>> \o Walk(h)[k - 1][h.next[q[i]]]
      BY <3>1, <3>2, WalkStep
    <3>5. From(q, i) = <<q[i]>> \o From(q, i + 1)
      BY <1>1, <3>1, FromStep
    <3>. HIDE DEF node
    <3>. QED  BY <3>2, <3>3, <3>4, <3>5
  <2>. QED  BY <2>1
<1>6. Nat \subseteq S
  <2>. HIDE DEF S
  <2>. QED  BY <1>4, <1>5, SetInduction
<1>7. Walk(h)[N][node(1)] = From(q, 1)
  <2>1. 1 \in 1..(L + 1) /\ N \in 0..N /\ L = L + 1 - 1 /\ N >= L
    BY <1>1
  <2>2. L \in S
    BY <1>1, <1>6
  <2>. HIDE DEF node, L
  <2>. QED  BY <2>1, <2>2
<1>8. From(q, 1) = q
  <2>1. From(q, 1) = [t \in 1..L |-> q[t]]
    BY <1>1 DEF From
  <2>2. q = [t \in 1..L |-> q[t]]
    BY <1>1, LenProperties
  <2>. QED  BY <2>1, <2>2
<1>. QED  BY <1>3, <1>7, <1>8, ChainIsWalk
-----------------------------------------------------------------------------
(* The pool: free entries in order, lists that grow at the front             *)

\* The free list whose first entry is f.
FreeList(f) == [i \in 1..(IF f = NULL THEN 0 ELSE N - f + 1) |-> f + i - 1]

LEMMA FreeListLinked ==
    ASSUME NEW h, NEW f \in Node, h.head[l2cap_empty_pool] = f,
           \A e \in Entry : f # NULL /\ e >= f => h.next[e] = IF e = N THEN NULL ELSE e + 1
    PROVE  Chain(h, l2cap_empty_pool) = FreeList(f)
<1>. DEFINE L == IF f = NULL THEN 0 ELSE N - f + 1
<1>1. N \in Nat /\ L \in Nat /\ L <= N
  BY PoolAssumption DEF N, Node, Entry, NULL
<1>2. \A i \in 1..L : f # NULL /\ f + i - 1 \in Entry /\ f + i - 1 >= f
  BY PoolAssumption DEF N, Node, Entry, NULL
<1>3. FreeList(f) \in Seq(Entry) /\ Len(FreeList(f)) = L
  BY <1>1, <1>2, IsASeq DEF FreeList
<1>4. f = IF FreeList(f) = <<>> THEN NULL ELSE FreeList(f)[1]
  <2>1. FreeList(f) = <<>> <=> L = 0
    BY <1>3, EmptySeq
  <2>2. CASE L = 0
    <3>1. f = NULL
      BY <2>2, PoolAssumption DEF N, Node, Entry, NULL
    <3>. QED  BY <2>1, <2>2, <3>1
  <2>3. CASE L # 0
    <3>1. 1 \in 1..L /\ f + 1 - 1 = f
      BY <1>1, <2>3 DEF Node, Entry, NULL
    <3>2. FreeList(f)[1] = f
      BY <3>1 DEF FreeList
    <3>. QED  BY <2>1, <2>3, <3>2
  <2>. QED  BY <2>2, <2>3
<1>5. ASSUME NEW i \in 1..L
      PROVE  h.next[FreeList(f)[i]] = IF i = L THEN NULL ELSE FreeList(f)[i + 1]
  <2>1. FreeList(f)[i] = f + i - 1
    BY DEF FreeList
  <2>2. h.next[f + i - 1] = IF f + i - 1 = N THEN NULL ELSE (f + i - 1) + 1
    BY <1>2
  <2>3. f + i - 1 = N <=> i = L
    BY <1>2, PoolAssumption DEF N, Node, Entry
  <2>4. i # L => FreeList(f)[i + 1] = f + (i + 1) - 1
    BY <1>1 DEF FreeList
  <2>5. f + (i + 1) - 1 = (f + i - 1) + 1
    BY DEF Node, Entry, NULL
  <2>. QED  BY <2>1, <2>2, <2>3, <2>4, <2>5
<1>6. Linked(h, l2cap_empty_pool, FreeList(f))
  <2>. HIDE DEF L
  <2>. QED  BY <1>3, <1>4, <1>5 DEF Linked
<1>. QED  BY <1>1, <1>3, <1>6, ChainOfLinked

LEMMA FreeListTail ==
    ASSUME NEW f \in Entry
    PROVE  /\ FreeList(f) # <<>> /\ Head(FreeList(f)) = f
           /\ Tail(FreeList(f)) = FreeList(IF f = N THEN NULL ELSE f + 1)
<1>. DEFINE L == N - f + 1
            g == IF f = N THEN NULL ELSE f + 1
<1>1. N \in Nat /\ f # NULL /\ L \in Nat /\ L >= 1
  BY PoolAssumption DEF N, Entry, NULL
<1>2. \A i \in 1..L : f + i - 1 \in Nat
  BY <1>1 DEF Entry
<1>3. FreeList(f) = [i \in 1..L |-> f + i - 1]
  BY <1>1 DEF FreeList
<1>4. FreeList(f) \in Seq(Nat) /\ Len(FreeList(f)) = L
  BY <1>1, <1>2, <1>3, IsASeq
<1>5. FreeList(f) # <<>>
  BY <1>1, <1>4, EmptySeq
<1>6. FreeList(f)[1] = f
  BY <1>1, <1>3 DEF Entry
<1>7. /\ Head(FreeList(f)) = f /\ Tail(FreeList(f)) \in Seq(Nat)
      /\ Len(Tail(FreeList(f))) = L - 1
      /\ \A i \in 1..(L - 1) : Tail(FreeList(f))[i] = FreeList(f)[i + 1]
  BY <1>4, <1>5, <1>6, HeadTailProperties
<1>8. FreeList(g) = [i \in 1..(L - 1) |-> g + i - 1]
  <2>1. (IF g = NULL THEN 0 ELSE N - g + 1) = L - 1
    BY <1>1, PoolAssumption DEF N, Entry, NULL
  <2>. QED  BY <2>1 DEF FreeList
<1>9. \A i \in 1..(L - 1) : f + (i + 1) - 1 = g + i - 1 /\ i + 1 \in 1..L /\ g + i - 1 \in Nat
  BY <1>1, PoolAssumption DEF N, Entry, NULL
<1>10. ASSUME NEW i \in 1..(L - 1) PROVE Tail(FreeList(f))[i] = FreeList(g)[i]
  <2>1. FreeList(f)[i + 1] = f + (i + 1) - 1
    BY <1>3, <1>9
  <2>2. FreeList(g)[i] = g + i - 1
    BY <1>8
  <2>. HIDE DEF g
  <2>. QED  BY <1>7, <1>9, <2>1, <2>2
<1>11. FreeList(g) \in Seq(Nat) /\ Len(FreeList(g)) = L - 1
  BY <1>1, <1>8, <1>9, IsASeq, SMTT(30)
<1>12. Tail(FreeList(f)) = FreeList(g)
  BY <1>7, <1>10, <1>11, SeqEqual
<1>. QED  BY <1>5, <1>7, <1>12

LEMMA PoolChain ==
    ASSUME IInv
    PROVE  Chain(heap, l2cap_empty_pool) = FreeList(heap.head[l2cap_empty_pool])
<1>1. heap.head[l2cap_empty_pool] \in Node
  BY DEF IInv, TypeOK, Heap, Pool
<1>2. ASSUME NEW e \in Entry, heap.head[l2cap_empty_pool] # NULL,
             e >= heap.head[l2cap_empty_pool]
      PROVE  heap.next[e] = IF e = N THEN NULL ELSE e + 1
  <2>1. ~Taken(e)
    BY <1>1, <1>2 DEF Taken, Node, Entry, NULL
  <2>. QED  BY <2>1 DEF IInv, PoolInOrder
<1>. QED  BY <1>1, <1>2, FreeListLinked

LEMMA Pushed ==
    ASSUME NEW h, NEW g, NEW s, NEW q, NEW e \in Entry, Linked(h, s, q),
           g.head[s] = e, g.next[e] = h.head[s],
           \A i \in 1..Len(q) : g.next[q[i]] = h.next[q[i]]
    PROVE  /\ Linked(g, s, <<e>> \o q) /\ Len(<<e>> \o q) = Len(q) + 1
           /\ (<<e>> \o q)[1] = e /\ \A i \in 1..Len(q) : (<<e>> \o q)[i + 1] = q[i]
<1>. DEFINE r == <<e>> \o q
<1>1. q \in Seq(Entry) /\ Len(q) \in Nat
  BY LenProperties DEF Linked
<1>2. PICK one : one = <<e>>
  OBVIOUS
<1>3. one \in Seq(Entry) /\ Len(one) = 1 /\ one[1] = e
  BY <1>2
<1>4. /\ one \o q \in Seq(Entry) /\ Len(one \o q) = Len(one) + Len(q)
      /\ \A i \in 1..(Len(one) + Len(q)) :
            (one \o q)[i] = IF i <= Len(one) THEN one[i] ELSE q[i - Len(one)]
  BY <1>1, <1>3, ConcatProperties
<1>5. /\ r \in Seq(Entry) /\ Len(r) = 1 + Len(q)
      /\ \A i \in 1..(1 + Len(q)) : r[i] = IF i <= 1 THEN e ELSE q[i - 1]
  BY <1>2, <1>3, <1>4
<1>. HIDE DEF r
<1>6. r[1] = e /\ \A i \in 1..Len(q) : r[i + 1] = q[i]
  BY <1>1, <1>5
<1>7. r # <<>>
  BY <1>1, <1>5, EmptySeq
<1>8. q = <<>> <=> Len(q) = 0
  BY <1>1, EmptySeq
<1>9. ASSUME NEW i \in 1..Len(r)
      PROVE  g.next[r[i]] = IF i = Len(r) THEN NULL ELSE r[i + 1]
  <2>1. CASE i = 1
    <3>1. r[i] = e /\ g.next[e] = IF q = <<>> THEN NULL ELSE q[1]
      BY <1>6, <2>1 DEF Linked
    <3>2. CASE Len(q) = 0
      BY <1>5, <1>8, <2>1, <3>1, <3>2
    <3>3. CASE Len(q) # 0
      <4>1. i # Len(r) /\ 1 \in 1..Len(q)
        BY <1>1, <1>5, <2>1, <3>3
      <4>2. r[i + 1] = q[1]
        BY <1>6, <2>1, <4>1
      <4>. QED  BY <1>8, <3>1, <3>3, <4>1, <4>2
    <3>. QED  BY <3>2, <3>3
  <2>2. CASE i # 1
    <3>1. i - 1 \in 1..Len(q) /\ (i - 1) + 1 = i /\ (i = Len(r) <=> i - 1 = Len(q))
      BY <1>1, <1>5, <2>2
    <3>2. r[i] = q[i - 1]
      BY <1>6, <3>1
    <3>3. h.next[q[i - 1]] = IF i - 1 = Len(q) THEN NULL ELSE q[i]
      BY <3>1 DEF Linked
    <3>4. i # Len(r) => r[i + 1] = q[i]
      BY <1>1, <1>5, <1>6, <3>1
    <3>. QED  BY <3>1, <3>2, <3>3, <3>4
  <2>. QED  BY <2>1, <2>2
<1>10. Linked(g, s, r)
  BY <1>5, <1>6, <1>7, <1>9 DEF Linked
<1>11. 1 + Len(q) = Len(q) + 1
  BY <1>1
<1>. QED  BY <1>5, <1>6, <1>10, <1>11 DEF r

LEMMA Untouched ==
    ASSUME NEW h, NEW g, NEW t, NEW q, Linked(h, t, q), g.head[t] = h.head[t],
           \A i \in 1..Len(q) : g.next[q[i]] = h.next[q[i]]
    PROVE  Linked(g, t, q)
BY DEF Linked

-----------------------------------------------------------------------------
(* What the steps do to the lists                                            *)

\* The head of the pool goes to the list of s as a new channel.
Takes(s, new) ==
    /\ PoolLeft
    /\ new \in Channel /\ new.cid = gen_l2cap_channel_id /\ new.connect_initiate # ""
    /\ l2cap_cur_cid' = gen_l2cap_channel_id
    /\ TakeEntry(s, new)

LEMMA LinkUpTakes ==
    ASSUME IInv, NEW s \in Slot, LinkUp(s), PoolLeft
    PROVE  Takes(s, [chan[FreeEntry] EXCEPT !.cid = gen_l2cap_channel_id,
                                            !.connect_initiate = "LOCAL"])
<1>1. PICK cid : cid = gen_l2cap_channel_id
  OBVIOUS
<1>. DEFINE new == [chan[FreeEntry] EXCEPT !.cid = cid, !.connect_initiate = "LOCAL"]
<1>2. cid \in 0..MAX_L2CAP_CID /\ FreeEntry \in Entry
  BY <1>1, Drawn, ChannelAssumption DEF PoolLeft
<1>3. new \in Channel /\ new.cid = cid /\ new.connect_initiate # ""
  BY <1>2 DEF IInv, TypeOK, Channel
<1>4. TakeEntry(s, new) /\ l2cap_cur_cid' = cid
  BY <1>1 DEF LinkUp, PoolLeft
<1>5. Takes(s, new)
  <2>. HIDE DEF new
  <2>. QED  BY <1>1, <1>3, <1>4 DEF Takes
<1>. QED  BY <1>1, <1>5

LEMMA ConnectionRequestTakes ==
    ASSUME IInv, NEW s \in Slot, ConnectionRequest(s), PoolLeft
    PROVE  /\ Head(toDev[s]).scid \in Nat
           /\ Takes(s, [chan[FreeEntry] EXCEPT !.cid = gen_l2cap_channel_id,
                                               !.dcid = Head(toDev[s]).scid,
                                               !.connect_initiate = "REMOTE"])
<1>1. PICK cid, scid : cid = gen_l2cap_channel_id /\ scid = Head(toDev[s]).scid
  OBVIOUS
<1>. DEFINE new == [chan[FreeEntry] EXCEPT !.cid = cid, !.dcid = scid,
                                           !.connect_initiate = "REMOTE"]
<1>2. cid \in 0..MAX_L2CAP_CID /\ FreeEntry \in Entry
  BY <1>1, Drawn, ChannelAssumption DEF PoolLeft
<1>3. scid \in Nat
  <2>1. Head(toDev[s]) \in Message /\ Head(toDev[s]).code = "ConnReq"
    BY Received DEF ConnectionRequest
  <2>. QED  BY <1>1, <2>1, Fields
<1>4. new \in Channel /\ new.cid = cid /\ new.connect_initiate # ""
  BY <1>2, <1>3 DEF IInv, TypeOK, Channel
<1>5. TakeEntry(s, new) /\ l2cap_cur_cid' = cid
  BY <1>1 DEF ConnectionRequest
<1>6. Takes(s, new)
  <2>. HIDE DEF new
  <2>. QED  BY <1>1, <1>4, <1>5 DEF Takes
<1>. QED  BY <1>1, <1>3, <1>6

\* A step that takes no entry leaves the lists as they are.
LEMMA HeapSteps ==
    ASSUME IInv, [Next]_vars
    PROVE  UNCHANGED heap \/ \E s \in Slot : \E new : Takes(s, new)
<1>1. CASE rfcomm_connect_request \/ UNCHANGED vars
  BY <1>1 DEF rfcomm_connect_request, device, vars
<1>2. ASSUME NEW s \in Slot, LinkUp(s) PROVE UNCHANGED heap \/ \E new : Takes(s, new)
  <2>1. CASE PoolLeft
    BY <1>2, <2>1, LinkUpTakes
  <2>2. CASE ~PoolLeft
    BY <1>2, <2>2 DEF LinkUp, TakeEntry, PoolLeft
  <2>. QED  BY <2>1, <2>2
<1>3. ASSUME NEW s \in Slot, ConnectionRequest(s) PROVE UNCHANGED heap \/ \E new : Takes(s, new)
  <2>1. CASE PoolLeft
    BY <1>3, <2>1, ConnectionRequestTakes
  <2>2. CASE ~PoolLeft
    BY <1>3, <2>2, SMTT(30) DEF ConnectionRequest, TakeEntry, PoolLeft
  <2>. QED  BY <2>1, <2>2
<1>4. ASSUME NEW s \in Slot, Receive(s), ~ConnectionRequest(s) PROVE UNCHANGED heap
  BY <1>4 DEF Receive, ConnectionResponse, ConfigurationRequest, ConfigurationResponse,
     DisconnectionRequest, EchoRequest, InfoRequest, CommandReject, device
<1>5. ASSUME NEW s \in Slot, LinkDown(s) \/ PeerReceive(s) PROVE UNCHANGED heap
  BY <1>5 DEF LinkDown, PeerReceive, device
<1>6. ASSUME NEW s \in Askers, \/ PeerConnect(s) \/ PeerDisconnect(s) \/ PeerPing(s)
                               \/ \E own \in PeerNumbers(s) : PeerConfigure(s, own)
      PROVE  UNCHANGED heap
  BY <1>6 DEF PeerConnect, PeerDisconnect, PeerPing, PeerConfigure, device
<1>. QED  BY <1>1, <1>2, <1>3, <1>4, <1>5, <1>6 DEF Next

LEMMA OwnedEntries ==
    ASSUME ListsLinked, NEW s \in Slot
    PROVE  /\ Owned(s) = {Chain(heap, s)[i] : i \in 1..Len(Chain(heap, s))}
           /\ Len(Chain(heap, s)) \in Nat
           /\ \A e \in Owned(s) : e \in Entry /\ Taken(e)
<1>1. Chain(heap, s) \in Seq(Entry)
  BY DEF ListsLinked, Linked
<1>2. Owned(s) = {Chain(heap, s)[i] : i \in 1..Len(Chain(heap, s))}
  BY <1>1, RangeEquality DEF Owned
<1>3. \A i \in 1..Len(Chain(heap, s)) : Chain(heap, s)[i] \in Entry /\ Taken(Chain(heap, s)[i])
  BY <1>1, ElementOfSeq DEF ListsLinked, InUse
<1>. QED  BY <1>1, <1>2, <1>3, LenProperties

\* An entry taken is the new front of its list; the other lists are as before.
LEMMA Shorter == \A L \in Nat, e \in Entry : L < e => L <= N /\ L + 1 <= N /\ e >= L + 1
BY PoolAssumption DEF Entry, N

LEMMA ListsGrow ==
    ASSUME IInv, ListsLinked, NEW s \in Slot, NEW new, Takes(s, new)
    PROVE  /\ ListsLinked'
           /\ FreeEntry \in Entry
           /\ Chain(heap', s) = <<FreeEntry>> \o Chain(heap, s)
           /\ \A t \in Slot \ {s} : Chain(heap', t) = Chain(heap, t)
           /\ \A t \in Slot : FreeEntry \notin Owned(t)
           /\ Owned(s)' = Owned(s) \cup {FreeEntry}
           /\ \A t \in Slot \ {s} : Owned(t)' = Owned(t)
<1>. DEFINE f == FreeEntry
            q(t) == Chain(heap, t)
            r == <<f>> \o q(s)
<1>1. /\ f \in Entry /\ heap.head[l2cap_empty_pool] = f
      /\ \A e \in Entry : Taken(e)' <=> Taken(e) \/ e = f
  BY EntryTaken, Drawn DEF Takes, PoolLeft, FreeEntry
<1>2. \A e \in Entry : Taken(e) => e # f /\ e < f
  BY <1>1, PoolAssumption DEF Taken, Entry, NULL
<1>3. /\ heap'.head[s] = f
      /\ \A t \in Slot \ {s} : heap'.head[t] = heap.head[t]
      /\ heap'.next[f] = heap.head[s]
      /\ \A n \in Entry \ {f} : heap'.next[n] = heap.next[n]
  <2>1. heap' = add_to_pool_head(remove_from_pool_head(heap, l2cap_empty_pool), s, f)
    BY DEF Takes, TakeEntry, PoolLeft
  <2>2. heap \in Heap
    BY DEF IInv, TypeOK
  <2>. QED  BY <1>1, <2>1, <2>2, Unlinked
<1>4. ASSUME NEW t \in Slot
      PROVE  /\ q(t) \in Seq(Entry) /\ Len(q(t)) \in Nat /\ Len(q(t)) <= N
             /\ Len(q(t)) < f
             /\ \A i \in 1..Len(q(t)) : /\ q(t)[i] \in Entry /\ q(t)[i] # f
                                        /\ heap'.next[q(t)[i]] = heap.next[q(t)[i]]
  <2>1. q(t) \in Seq(Entry) /\ Len(q(t)) \in Nat /\ \A i \in 1..Len(q(t)) : q(t)[i] \in Entry
    BY LenProperties, ElementOfSeq DEF ListsLinked, Linked
  <2>2. \A i \in 1..Len(q(t)) : q(t)[i] # f /\ q(t)[i] < f /\ q(t)[i] >= Len(q(t)) - i + 1
    BY <1>2, <2>1 DEF ListsLinked, InUse
  <2>3. Len(q(t)) < f
    <3>1. CASE Len(q(t)) = 0
      BY <1>1, <3>1 DEF Entry
    <3>2. CASE Len(q(t)) # 0
      <4>1. 1 \in 1..Len(q(t)) /\ Len(q(t)) - 1 + 1 = Len(q(t))
        BY <2>1, <3>2
      <4>2. q(t)[1] \in Entry /\ q(t)[1] < f /\ q(t)[1] >= Len(q(t))
        BY <2>1, <2>2, <4>1
      <4>. HIDE DEF q
      <4>. QED  BY <1>1, <2>1, <4>2 DEF Entry
    <3>. QED  BY <3>1, <3>2
  <2>4. Len(q(t)) <= N
    <3>. HIDE DEF q
    <3>. QED  BY <1>1, <2>1, <2>3, Shorter
  <2>. QED  BY <1>3, <2>1, <2>2, <2>3, <2>4
<1>5. /\ Linked(heap', s, r) /\ Len(r) = Len(q(s)) + 1
      /\ r[1] = f /\ \A i \in 1..Len(q(s)) : r[i + 1] = q(s)[i]
  <2>1. Linked(heap, s, q(s))
    BY DEF ListsLinked
  <2>. QED  BY <1>1, <1>3, <1>4, <2>1, Pushed
<1>6. Chain(heap', s) = r
  <2>1. Len(r) <= N
    <3>1. Len(q(s)) \in Nat /\ Len(q(s)) < f /\ Len(r) = Len(q(s)) + 1
      BY <1>4, <1>5
    <3>. HIDE DEF q, r
    <3>. QED  BY <1>1, <3>1, Shorter
  <2>. QED  BY <1>5, <2>1, ChainOfLinked
<1>7. ASSUME NEW t \in Slot \ {s} PROVE Linked(heap', t, q(t)) /\ Chain(heap', t) = q(t)
  <2>1. Linked(heap, t, q(t))
    BY DEF ListsLinked
  <2>2. Linked(heap', t, q(t))
    BY <1>3, <1>4, <2>1, Untouched
  <2>. QED  BY <1>4, <2>2, ChainOfLinked
<1>8. \A i \in 1..Len(r) : /\ r[i] \in Entry /\ (Taken(r[i]) \/ r[i] = f)
                           /\ r[i] >= Len(r) - i + 1
  <2>. SUFFICES ASSUME NEW i \in 1..Len(r)
                PROVE  /\ r[i] \in Entry /\ (Taken(r[i]) \/ r[i] = f)
                       /\ r[i] >= Len(r) - i + 1
    OBVIOUS
  <2>1. CASE i = 1
    <3>1. r[i] = f /\ Len(r) - i + 1 = Len(q(s)) + 1
      BY <1>4, <1>5, <2>1
    <3>2. Len(q(s)) \in Nat /\ Len(q(s)) < f
      BY <1>4
    <3>3. f >= Len(q(s)) + 1
      <4>. HIDE DEF q
      <4>. QED  BY <1>1, <3>2, Shorter
    <3>. HIDE DEF q, r
    <3>. QED  BY <1>1, <3>1, <3>3
  <2>2. CASE i # 1
    <3>1. i - 1 \in 1..Len(q(s)) /\ (i - 1) + 1 = i /\ Len(r) - i + 1 = Len(q(s)) - (i - 1) + 1
      BY <1>4, <1>5, <2>2
    <3>2. r[i] = q(s)[i - 1]
      BY <1>5, <3>1
    <3>3. q(s)[i - 1] \in Entry /\ Taken(q(s)[i - 1]) /\ q(s)[i - 1] >= Len(q(s)) - (i - 1) + 1
      BY <1>4, <3>1 DEF ListsLinked, InUse
    <3>. HIDE DEF q, r
    <3>. QED  BY <3>1, <3>2, <3>3
  <2>. QED  BY <2>1, <2>2
<1>9. ASSUME NEW t \in Slot PROVE Linked(heap', t, Chain(heap', t)) /\ InUse(Chain(heap, t))'
  <2>1. PICK p : p = Chain(heap', t)
    OBVIOUS
  <2>2. /\ Linked(heap', t, p)
        /\ \A i \in 1..Len(p) : /\ p[i] \in Entry /\ (Taken(p[i]) \/ p[i] = f)
                                /\ p[i] >= Len(p) - i + 1
    <3>1. CASE t = s
      <4>. HIDE DEF r
      <4>. QED  BY <1>5, <1>6, <1>8, <2>1, <3>1
    <3>2. CASE t # s
      <4>1. Linked(heap', t, q(t)) /\ p = q(t)
        BY <1>7, <2>1, <3>2
      <4>2. \A i \in 1..Len(q(t)) : /\ q(t)[i] \in Entry /\ Taken(q(t)[i])
                                    /\ q(t)[i] >= Len(q(t)) - i + 1
        BY <1>4 DEF ListsLinked, InUse
      <4>. QED  BY <4>1, <4>2
    <3>. QED  BY <3>1, <3>2
  <2>3. InUse(p)'
    BY <1>1, <2>2 DEF InUse
  <2>. QED  BY <2>1, <2>2, <2>3 DEF InUse
<1>10. \A t \in Slot : f \notin Owned(t)
  BY <1>2, OwnedEntries
<1>11. Owned(s)' = Owned(s) \cup {f}
  <2>1. r \in Seq(Entry) /\ q(s) \in Seq(Entry) /\ Len(q(s)) \in Nat
    BY <1>4, <1>5 DEF Linked
  <2>2. Range(r) = {r[i] : i \in 1..Len(r)} /\ Range(q(s)) = {q(s)[i] : i \in 1..Len(q(s))}
    BY <2>1, RangeEquality
  <2>3. Range(r) \subseteq Range(q(s)) \cup {f}
    <3>1. ASSUME NEW i \in 1..Len(r) PROVE r[i] \in Range(q(s)) \cup {f}
      <4>1. CASE i = 1
        BY <1>5, <4>1
      <4>2. CASE i # 1
        <5>1. i - 1 \in 1..Len(q(s)) /\ (i - 1) + 1 = i
          BY <1>5, <2>1, <4>2
        <5>2. r[i] = q(s)[i - 1]
          BY <1>5, <5>1
        <5>. QED  BY <2>2, <5>1, <5>2
      <4>. QED  BY <4>1, <4>2
    <3>. QED  BY <2>2, <3>1
  <2>4. f \in Range(r)
    <3>1. 1 \in 1..Len(r)
      BY <1>5, <2>1
    <3>. QED  BY <1>5, <2>2, <3>1
  <2>5. ASSUME NEW i \in 1..Len(q(s)) PROVE q(s)[i] \in Range(r)
    <3>1. i + 1 \in 1..Len(r)
      BY <1>5, <2>1
    <3>. QED  BY <1>5, <2>2, <3>1
  <2>. QED  BY <1>6, <2>2, <2>3, <2>4, <2>5 DEF Owned
<1>12. \A t \in Slot \ {s} : Owned(t)' = Owned(t)
  BY <1>7 DEF Owned
<1>13. \A t, u \in Slot : t # u => Owned(t)' \cap Owned(u)' = {}
  BY <1>10, <1>11, <1>12 DEF ListsLinked
<1>14. ListsLinked'
  BY <1>9, <1>13 DEF ListsLinked
<1>. QED  BY <1>1, <1>6, <1>7, <1>10, <1>11, <1>12, <1>14

LEMMA ListsStep == IInv /\ ListsLinked /\ [Next]_vars => ListsLinked'
<1>. SUFFICES ASSUME IInv, ListsLinked, [Next]_vars PROVE ListsLinked'
  OBVIOUS
<1>1. CASE UNCHANGED heap
  BY <1>1 DEF ListsLinked, InUse, Owned, Taken
<1>2. ASSUME NEW s \in Slot, NEW new, Takes(s, new) PROVE ListsLinked'
  BY <1>2, ListsGrow
<1>. QED  BY <1>1, <1>2, HeapSteps

LEMMA ListsInit == Init => ListsLinked /\ \A s \in Slot : Chain(heap, s) = <<>>
<1>. SUFFICES ASSUME Init PROVE ListsLinked /\ \A s \in Slot : Chain(heap, s) = <<>>
  OBVIOUS
<1>1. ASSUME NEW s \in Slot PROVE Linked(heap, s, <<>>) /\ Chain(heap, s) = <<>>
  <2>1. heap.head[s] = NULL
    <3>1. s \in Pool /\ s # l2cap_empty_pool
      BY DEF Pool, Slot, l2cap_empty_pool
    <3>. QED  BY <3>1 DEF Init, init_pool
  <2>2. Linked(heap, s, <<>>)
    BY <2>1 DEF Linked
  <2>3. Len(<<>>) <= N
    BY PoolAssumption DEF N
  <2>. QED  BY <2>2, <2>3, ChainOfLinked
<1>2. \A s \in Slot : Owned(s) = {}
  <2>1. Range(<<>>) = {}
    BY DEF Range
  <2>. QED  BY <1>1, <2>1 DEF Owned
<1>. QED  BY <1>1, <1>2 DEF ListsLinked, InUse

-----------------------------------------------------------------------------
(* The pool implements ChannelPool                                           *)

LEMMA PoolInit == Init => P!Init
<1>. SUFFICES ASSUME Init PROVE P!Init
  OBVIOUS
<1>1. \A s \in Slot : Chain(heap, s) = <<>>
  BY ListsInit
<1>2. IInv /\ heap.head[l2cap_empty_pool] = 1
  BY InitIInv DEF Init, init_pool, Pool, l2cap_empty_pool
<1>3. FreeList(1) = [i \in 1..N |-> i]
  BY PoolAssumption DEF FreeList, NULL, N
<1>. QED  BY <1>1, <1>2, <1>3, PoolChain DEF P!Init, N

LEMMA PoolStep ==
    ASSUME IInv, ListsLinked, [Next]_vars
    PROVE  [P!Next]_(P!vars)
<1>1. CASE UNCHANGED heap
  BY <1>1 DEF P!vars
<1>2. ASSUME NEW s \in Slot, NEW new, Takes(s, new) PROVE P!Next
  <2>. DEFINE f == FreeEntry
              free == Chain(heap, l2cap_empty_pool)
              owned == [t \in Slot |-> Chain(heap, t)]
  <2>1. f \in Entry /\ heap.head[l2cap_empty_pool] = f
    BY <1>2, Drawn DEF Takes, PoolLeft, FreeEntry
  <2>2. free = FreeList(f)
    BY <2>1, PoolChain
  <2>3. /\ heap'.head[l2cap_empty_pool] = IF f = N THEN NULL ELSE f + 1
    <3>1. heap' = add_to_pool_head(remove_from_pool_head(heap, l2cap_empty_pool), s, f)
      BY <1>2 DEF Takes, TakeEntry, PoolLeft
    <3>2. heap'.head[l2cap_empty_pool] = heap.next[f]
      BY <2>1, <3>1, Unlinked DEF IInv, TypeOK
    <3>3. ~Taken(f)
      BY <2>1, HeadFree DEF Taken
    <3>. QED  BY <2>1, <3>2, <3>3 DEF IInv, PoolInOrder
  <2>4. IInv'
    BY NextIInv
  <2>5. Chain(heap', l2cap_empty_pool) = FreeList(heap'.head[l2cap_empty_pool])
    <3>1. heap'.head[l2cap_empty_pool] \in Node
      BY <2>4 DEF IInv, TypeOK, Heap, Pool
    <3>2. ASSUME NEW e \in Entry, heap'.head[l2cap_empty_pool] # NULL,
                 e >= heap'.head[l2cap_empty_pool]
          PROVE  heap'.next[e] = IF e = N THEN NULL ELSE e + 1
      <4>1. ~Taken(e)'
        BY <3>1, <3>2 DEF Taken, Node, Entry, NULL
      <4>. QED  BY <2>4, <4>1 DEF IInv, PoolInOrder
    <3>. QED  BY <3>1, <3>2, FreeListLinked
  <2>6. free # <<>> /\ Head(free) = f /\ Chain(heap', l2cap_empty_pool) = Tail(free)
    BY <2>1, <2>2, <2>3, <2>5, FreeListTail
  <2>7. /\ Chain(heap', s) = <<f>> \o Chain(heap, s)
        /\ \A t \in Slot \ {s} : Chain(heap', t) = Chain(heap, t)
    BY <1>2, ListsGrow
  <2>8. [t \in Slot |-> Chain(heap', t)] = [owned EXCEPT ![s] = <<Head(free)>> \o @]
    BY <2>6, <2>7
  <2>9. P!Take(s)
    BY <2>6, <2>8 DEF P!Take
  <2>. QED  BY <2>9 DEF P!Next
<1>. QED  BY <1>1, <1>2, HeapSteps

LEMMA ListsAlways == Spec => [](IInv /\ ListsLinked)
<1>1. Init => IInv /\ ListsLinked
  BY InitIInv, ListsInit
<1>2. IInv /\ ListsLinked /\ [Next]_vars => (IInv /\ ListsLinked)'
  BY NextIInv, ListsStep
<1>. QED  BY <1>1, <1>2, PTL DEF Spec

\* The doubly linked lists of list.c do what ChannelPool says, for any number of
\* entries and links: each entry leaves the free list once, in order, and is from
\* then on in the list of one slot.
THEOREM PoolRefined == Spec => PoolSpec
<1>1. Init => P!Init
  BY PoolInit
<1>2. IInv /\ ListsLinked /\ [Next]_vars => [P!Next]_(P!vars)
  BY PoolStep
<1>. QED  BY <1>1, <1>2, ListsAlways, PTL DEF Spec, PoolSpec, P!Spec
-----------------------------------------------------------------------------
(* The messages of a queue                                                   *)

LEMMA RangeOf ==
    ASSUME NEW S, NEW q \in Seq(S)
    PROVE  /\ \A m \in Range(q) : m \in S /\ \E i \in 1..Len(q) : q[i] = m
           /\ \A i \in 1..Len(q) : q[i] \in Range(q)
           /\ Len(q) \in Nat
<1>1. Range(q) = {q[i] : i \in 1..Len(q)} /\ Len(q) \in Nat
  BY RangeEquality, LenProperties
<1>2. \A i \in 1..Len(q) : q[i] \in S
  BY ElementOfSeq
<1>. QED  BY <1>1, <1>2

LEMMA RangeTail ==
    ASSUME NEW S, NEW q \in Seq(S), q # <<>>
    PROVE  /\ Head(q) \in Range(q)
           /\ Range(Tail(q)) \subseteq Range(q)
           /\ Range(q) \subseteq Range(Tail(q)) \cup {Head(q)}
<1>1. /\ Head(q) = q[1] /\ Tail(q) \in Seq(S) /\ Len(Tail(q)) = Len(q) - 1
      /\ \A i \in 1..Len(Tail(q)) : Tail(q)[i] = q[i + 1]
      /\ Len(q) \in Nat /\ Len(q) >= 1
  BY HeadTailProperties, LenProperties, EmptySeq
<1>2. /\ Range(q) = {q[i] : i \in 1..Len(q)}
      /\ Range(Tail(q)) = {Tail(q)[i] : i \in 1..Len(Tail(q))}
  BY <1>1, RangeEquality, ZenonT(40)
<1>3. \A i \in 1..Len(Tail(q)) : i + 1 \in 1..Len(q)
  BY <1>1
<1>4. \A i \in 1..Len(q) : i = 1 \/ (i - 1 \in 1..Len(Tail(q)) /\ (i - 1) + 1 = i)
  BY <1>1
<1>5. 1 \in 1..Len(q)
  BY <1>1
<1>6. Head(q) \in Range(q)
  BY <1>1, <1>2, <1>5
<1>7. Range(Tail(q)) \subseteq Range(q)
  BY <1>1, <1>2, <1>3
<1>8. ASSUME NEW i \in 1..Len(q) PROVE q[i] \in Range(Tail(q)) \cup {Head(q)}
  <2>1. CASE i = 1
    BY <1>1, <2>1
  <2>2. CASE i # 1
    <3>1. i - 1 \in 1..Len(Tail(q)) /\ (i - 1) + 1 = i
      BY <1>4, <2>2
    <3>2. Tail(q)[i - 1] = q[i]
      BY <1>1, <3>1
    <3>. QED  BY <1>2, <3>1, <3>2
  <2>. QED  BY <2>1, <2>2
<1>. QED  BY <1>2, <1>6, <1>7, <1>8

LEMMA RangeShort ==
    /\ Range(<<>>) = {}
    /\ \A m : Range(<<m>>) = {m}
    /\ \A a, b : Range(<<a, b>>) = {a, b}
BY DEF Range

LEMMA OnceTail ==
    ASSUME NEW S, NEW q \in Seq(S), q # <<>>, OfferedOnce(q)
    PROVE  OfferedOnce(Tail(q))
<1>1. /\ Len(Tail(q)) = Len(q) - 1 /\ Len(q) \in Nat
      /\ \A i \in 1..Len(Tail(q)) : Tail(q)[i] = q[i + 1]
  BY HeadTailProperties, LenProperties
<1>2. \A i \in 1..Len(Tail(q)) : i + 1 \in 1..Len(q)
  BY <1>1
<1>3. \A i, j \in 1..Len(Tail(q)) : i + 1 = j + 1 => i = j
  BY <1>1
<1>. QED  BY <1>1, <1>2, <1>3 DEF OfferedOnce

LEMMA OnceMore ==
    ASSUME NEW S, NEW q \in Seq(S), NEW r \in Seq(S), OfferedOnce(q), OfferedOnce(r),
           \A a \in Range(q), b \in Range(r) : Offer(a) /\ Offer(b) => Number(a) # Number(b)
    PROVE  OfferedOnce(q \o r)
<1>. DEFINE u == q \o r
<1>1. /\ Len(q) \in Nat /\ Len(r) \in Nat /\ Len(u) = Len(q) + Len(r)
      /\ \A i \in 1..(Len(q) + Len(r)) : u[i] = IF i <= Len(q) THEN q[i] ELSE r[i - Len(q)]
  BY ConcatProperties, LenProperties
<1>. HIDE DEF u
<1>2. ASSUME NEW i \in 1..Len(u)
      PROVE  \/ i \in 1..Len(q) /\ u[i] = q[i] /\ u[i] \in Range(q)
             \/ i - Len(q) \in 1..Len(r) /\ u[i] = r[i - Len(q)] /\ u[i] \in Range(r)
  <2>1. CASE i <= Len(q)
    <3>1. i \in 1..Len(q) /\ u[i] = q[i]
      BY <1>1, <2>1
    <3>. QED  BY <3>1, RangeOf
  <2>2. CASE ~(i <= Len(q))
    <3>1. i - Len(q) \in 1..Len(r) /\ u[i] = r[i - Len(q)]
      BY <1>1, <2>2
    <3>. QED  BY <3>1, RangeOf
  <2>. QED  BY <2>1, <2>2
<1>3. ASSUME NEW i \in 1..Len(u), NEW j \in 1..Len(u),
             Offer(u[i]), Offer(u[j]), Number(u[i]) = Number(u[j])
      PROVE  i = j
  <2>1. CASE i \in 1..Len(q) /\ u[i] = q[i] /\ j \in 1..Len(q) /\ u[j] = q[j]
    BY <1>3, <2>1 DEF OfferedOnce
  <2>2. CASE /\ i - Len(q) \in 1..Len(r) /\ u[i] = r[i - Len(q)]
             /\ j - Len(q) \in 1..Len(r) /\ u[j] = r[j - Len(q)]
    <3>1. i - Len(q) = j - Len(q)
      BY <1>3, <2>2 DEF OfferedOnce
    <3>. QED  BY <1>1, <3>1
  <2>3. ~(u[i] \in Range(q) /\ u[j] \in Range(r)) /\ ~(u[j] \in Range(q) /\ u[i] \in Range(r))
    BY <1>3
  <2>. QED  BY <1>2, <2>1, <2>2, <2>3
<1>4. OfferedOnce(u)
  BY <1>3 DEF OfferedOnce
<1>. QED  BY <1>4 DEF u

LEMMA NoOffers ==
    ASSUME NEW S, NEW q \in Seq(S), NEW r \in Seq(S), OfferedOnce(q),
           \A b \in Range(r) : ~Offer(b)
    PROVE  OfferedOnce(q \o r)
<1>1. OfferedOnce(r)
  BY RangeOf DEF OfferedOnce
<1>. QED  BY <1>1, OnceMore

-----------------------------------------------------------------------------
(* What a step does to the queues of its link                                *)

LEMMA AnswerQueues ==
    ASSUME IInv, NEW s \in Slot, NEW codes, Incoming(s, codes),
           NEW M, NEW msgs \in Seq(M), Answer(s, msgs)
    PROVE  /\ Head(toDev[s]) \in Range(toDev[s])
           /\ Range(toDev'[s]) \subseteq Range(toDev[s])
           /\ Range(toDev[s]) \subseteq Range(toDev'[s]) \cup {Head(toDev[s])}
           /\ toPeer'[s] = toPeer[s] \o msgs
           /\ Range(toPeer'[s]) = Range(toPeer[s]) \cup Range(msgs)
           /\ peer' = peer
           /\ \A t \in Slot \ {s} : toDev'[t] = toDev[t] /\ toPeer'[t] = toPeer[t]
<1>1. /\ toDev \in [Slot -> Seq(Message)] /\ toPeer \in [Slot -> Seq(Message)]
      /\ toDev[s] \in Seq(Message) /\ toPeer[s] \in Seq(Message) /\ toDev[s] # <<>>
  BY DEF IInv, TypeOK, Incoming
<1>2. /\ toDev' = [toDev EXCEPT ![s] = Tail(toDev[s])]
      /\ toPeer' = [toPeer EXCEPT ![s] = toPeer[s] \o msgs] /\ peer' = peer
  BY DEF Answer
<1>3. /\ toDev'[s] = Tail(toDev[s]) /\ toPeer'[s] = toPeer[s] \o msgs
      /\ \A t \in Slot \ {s} : toDev'[t] = toDev[t] /\ toPeer'[t] = toPeer[t]
  BY <1>1, <1>2
<1>4. Range(toPeer[s] \o msgs) = Range(toPeer[s]) \cup Range(msgs)
  <2>1. toPeer[s] \in Seq(Message \cup M) /\ msgs \in Seq(Message \cup M)
    BY <1>1, SeqMonotonic
  <2>. QED  BY <2>1, RangeConcatenation
<1>. QED  BY <1>1, <1>2, <1>3, <1>4, RangeTail

LEMMA ConsumeQueues ==
    ASSUME IInv, NEW s \in Slot, NEW codes, Arrived(s, codes),
           NEW M, NEW msgs \in Seq(M), Consume(s, msgs)
    PROVE  /\ Head(toPeer[s]) \in Range(toPeer[s])
           /\ toPeer'[s] = Tail(toPeer[s])
           /\ Range(toPeer'[s]) \subseteq Range(toPeer[s])
           /\ Range(toDev'[s]) = Range(toDev[s]) \cup Range(msgs)
           /\ \A t \in Slot \ {s} : toDev'[t] = toDev[t] /\ toPeer'[t] = toPeer[t]
<1>1. /\ toDev \in [Slot -> Seq(Message)] /\ toPeer \in [Slot -> Seq(Message)]
      /\ toDev[s] \in Seq(Message) /\ toPeer[s] \in Seq(Message) /\ toPeer[s] # <<>>
  BY DEF IInv, TypeOK, Arrived
<1>2. /\ toPeer' = [toPeer EXCEPT ![s] = Tail(toPeer[s])]
      /\ toDev' = [toDev EXCEPT ![s] = toDev[s] \o msgs]
  BY DEF Consume
<1>3. /\ toPeer'[s] = Tail(toPeer[s]) /\ toDev'[s] = toDev[s] \o msgs
      /\ \A t \in Slot \ {s} : toDev'[t] = toDev[t] /\ toPeer'[t] = toPeer[t]
  BY <1>1, <1>2
<1>4. Range(toDev[s] \o msgs) = Range(toDev[s]) \cup Range(msgs)
  <2>1. toDev[s] \in Seq(Message \cup M) /\ msgs \in Seq(Message \cup M)
    BY <1>1, SeqMonotonic
  <2>. QED  BY <2>1, RangeConcatenation
<1>. QED  BY <1>1, <1>3, <1>4, RangeTail

LEMMA RangeAppend ==
    ASSUME NEW q \in Seq(Message), NEW m
    PROVE  Append(q, m) = q \o <<m>> /\ Range(Append(q, m)) = Range(q) \cup {m}
<1>1. q \in Seq(Message \cup {m}) /\ <<m>> \in Seq(Message \cup {m}) /\ m \in Message \cup {m}
  BY SeqMonotonic
<1>2. Append(q, m) = q \o <<m>>
  BY <1>1, AppendIsConcat
<1>3. PICK one : one = <<m>>
  OBVIOUS
<1>4. one \in Seq(Message \cup {m}) /\ Range(one) = {m}
  BY <1>1, <1>3, RangeShort
<1>5. Range(q \o one) = Range(q) \cup Range(one)
  BY <1>1, <1>4, RangeConcatenation
<1>. QED  BY <1>2, <1>3, <1>4, <1>5

LEMMA AskQueues ==
    ASSUME IInv, NEW s \in Slot, NEW m, Ask(s, m)
    PROVE  /\ Range(toDev'[s]) = Range(toDev[s]) \cup {m}
           /\ \A t \in Slot \ {s} : toDev'[t] = toDev[t]
<1>1. toDev \in [Slot -> Seq(Message)] /\ toDev[s] \in Seq(Message)
  BY DEF IInv, TypeOK
<1>2. toDev' = [toDev EXCEPT ![s] = Append(toDev[s], m)]
  BY DEF Ask
<1>. QED  BY <1>1, <1>2, RangeAppend

-----------------------------------------------------------------------------
(* Steps that change nothing the invariant speaks of                         *)

QueuesFramed(s) ==
    /\ \A m \in Range(toDev'[s]) :
          m \in Range(toDev[s]) \/ (m.code # "ConnRsp" /\ NamesPeer(m, s))
    /\ \A m \in Range(toDev[s]) : m.code = "ConnRsp" => m \in Range(toDev'[s])
    /\ \A m \in Range(toPeer'[s]) :
          m \in Range(toPeer[s]) \/ (~Offer(m) /\ SabmGood(m, s))
    /\ OfferedOnce(toPeer[s]) => OfferedOnce(toPeer'[s])

PeerFramed(s) == \A c \in peer'[s] : \E d \in peer[s] : c.own = d.own /\ c.dev = d.dev

ListFramed(s) ==
    /\ Owned(s)' = Owned(s)
    /\ \A e \in Owned(s) : /\ chan'[e].cid = chan[e].cid
                           /\ chan'[e].dcid = chan[e].dcid
                           /\ chan'[e].connect_initiate = chan[e].connect_initiate

Framed(s) == QueuesFramed(s) /\ PeerFramed(s) /\ ListFramed(s)

LEMMA FrameKeeps ==
    ASSUME NEW s \in Slot, Framed(s)
    PROVE  /\ NumbersKnown(s) => NumbersKnown(s)'
           /\ Promise(s) => Promise(s)'
<1>1. NumbersKnown(s) => NumbersKnown(s)'
  BY DEF NumbersKnown, NamesPeer, SabmGood, Framed, QueuesFramed, ListFramed, Offer
<1>2. ASSUME Promise(s) PROVE OffersGood(s)'
  BY <1>2 DEF Promise, OffersGood, Framed, QueuesFramed, PeerFramed, ListFramed, Offer, Number
<1>3. ASSUME Promise(s) PROVE OfferedOnce(toPeer[s])'
  BY <1>3 DEF Promise, OfferedOnce, Framed, QueuesFramed
<1>4. ASSUME Promise(s) PROVE AcceptancesGood(s)'
  BY <1>4 DEF Promise, AcceptancesGood, Framed, QueuesFramed, PeerFramed, Offer
<1>5. ASSUME Promise(s) PROVE ChannelsGood(s)'
  BY <1>5 DEF Promise, ChannelsGood, Accepts, Framed, QueuesFramed, PeerFramed, ListFramed, Offer
<1>6. ASSUME Promise(s) PROVE PairsUnique(s)'
  BY <1>6 DEF Promise, PairsUnique, Framed, PeerFramed
<1>. QED  BY <1>1, <1>2, <1>3, <1>4, <1>5, <1>6 DEF Promise

LEMMA OneLinkSteps ==
    ASSUME ChannelInv, NEW s \in Slot, FreeEntriesBlank', PoolLeft' => PoolLeft,
           \A t \in Slot \ {s} : Framed(t),
           NumbersKnown(s)', PoolLeft' => Promise(s)'
    PROVE  ChannelsKnown'
<1>1. ASSUME NEW t \in Slot \ {s} PROVE NumbersKnown(t)' /\ (PoolLeft' => Promise(t)')
  BY <1>1, FrameKeeps DEF ChannelInv, ChannelsKnown, PromisesKept
<1>2. \A t \in Slot : NumbersKnown(t)'
  BY <1>1
<1>3. PromisesKept'
  BY <1>1 DEF PromisesKept
<1>. QED  BY <1>2, <1>3 DEF ChannelsKnown

LEMMA FramedSteps ==
    ASSUME ChannelInv, FreeEntriesBlank', PoolLeft' => PoolLeft, \A t \in Slot : Framed(t)
    PROVE  ChannelsKnown'
<1>1. ASSUME NEW t \in Slot PROVE NumbersKnown(t)' /\ (PoolLeft' => Promise(t)')
  BY <1>1, FrameKeeps DEF ChannelInv, ChannelsKnown, PromisesKept
<1>2. \A t \in Slot : NumbersKnown(t)'
  BY <1>1
<1>3. PromisesKept'
  BY <1>1 DEF PromisesKept
<1>. QED  BY <1>2, <1>3 DEF ChannelsKnown

\* The entries of a channel that a step finds by its number.
LEMMA Lookup ==
    ASSUME IInv, ListsLinked, NEW s \in Slot, NEW cid
    PROVE  LET conn == get_l2cap_conn_from_channel_id(s, cid)
           IN  /\ conn # NULL => /\ conn \in Owned(s) /\ conn \in Entry
                                 /\ chan[conn].cid = cid
               /\ \A e \in Owned(s) : chan[e].cid = cid => conn # NULL /\ conn = e
<1>. DEFINE list == Chain(heap, s)
            I == {i \in 1..Len(list) : chan[list[i]].cid = cid}
            conn == get_l2cap_conn_from_channel_id(s, cid)
<1>1. /\ Owned(s) = {list[i] : i \in 1..Len(list)} /\ Len(list) \in Nat
      /\ \A e \in Owned(s) : e \in Entry /\ Taken(e) /\ e # NULL
  BY OwnedEntries, Entries
<1>2. conn = IF I = {} THEN NULL ELSE list[CHOOSE x \in I : \A y \in I : x <= y]
  <2>1. SelectInSeq(list, LAMBDA e : chan[e].cid = cid) =
           IF I # {} THEN CHOOSE x \in I : \A y \in I : x <= y ELSE 0
    BY DEF SelectInSeq, Min
  <2>2. I # {} => (CHOOSE x \in I : \A y \in I : x <= y) \in I
    <3>. HIDE DEF I
    <3>1. I \subseteq Nat
      BY DEF I
    <3>. QED  BY <3>1, LeastExists
  <2>3. 0 \notin I
    OBVIOUS
  <2>. HIDE DEF I, list
  <2>. QED  BY <2>1, <2>2, <2>3 DEF get_l2cap_conn_from_channel_id, list
<1>3. I # {} => \E i \in I : conn = list[i]
  <2>1. I # {} => (CHOOSE x \in I : \A y \in I : x <= y) \in I
    <3>. HIDE DEF I
    <3>1. I \subseteq Nat
      BY DEF I
    <3>. QED  BY <3>1, LeastExists
  <2>. HIDE DEF I, conn
  <2>. QED  BY <1>2, <2>1
<1>4. I # {} => conn \in Owned(s) /\ conn \in Entry /\ conn # NULL /\ chan[conn].cid = cid
  <2>. HIDE DEF conn
  <2>. QED  BY <1>1, <1>3
<1>5. ASSUME NEW e \in Owned(s), chan[e].cid = cid PROVE conn # NULL /\ conn = e
  <2>1. I # {}
    BY <1>1, <1>5
  <2>2. /\ conn \in Owned(s) /\ conn \in Entry /\ conn # NULL /\ chan[conn].cid = cid
        /\ Taken(conn) /\ Taken(e) /\ e \in Entry
    BY <1>1, <1>4, <2>1
  <2>. HIDE DEF conn
  <2>3. MIN_L2CAP_CID + e = MIN_L2CAP_CID + conn
    BY <1>5, <2>2 DEF IInv, PoolInOrder
  <2>. QED  BY <2>2, <2>3, ChannelAssumption DEF Entry
<1>6. conn # NULL => I # {}
  BY <1>2
<1>. HIDE DEF I, conn
<1>. QED  BY <1>4, <1>5, <1>6 DEF conn

\* The fields of the entries that the invariant speaks of stay.
LEMMA FieldsStay ==
    ASSUME ChannelInv, UNCHANGED heap,
           \A e \in Entry : /\ chan'[e].cid = chan[e].cid /\ chan'[e].dcid = chan[e].dcid
                            /\ chan'[e].connect_initiate = chan[e].connect_initiate
    PROVE  FreeEntriesBlank' /\ (PoolLeft' => PoolLeft) /\ \A t \in Slot : ListFramed(t)
<1>1. FreeEntriesBlank'
  BY DEF ChannelInv, ChannelsKnown, FreeEntriesBlank, Taken
<1>2. PoolLeft' => PoolLeft
  BY DEF PoolLeft
<1>3. ASSUME NEW t \in Slot PROVE ListFramed(t)
  <2>1. Owned(t)' = Owned(t)
    BY DEF Owned
  <2>2. \A e \in Owned(t) : e \in Entry
    BY OwnedEntries DEF ChannelInv
  <2>. QED  BY <2>1, <2>2 DEF ListFramed
<1>. QED  BY <1>1, <1>2, <1>3

LEMMA LinkStays ==
    ASSUME NEW t, toDev'[t] = toDev[t], toPeer'[t] = toPeer[t], peer'[t] = peer[t]
    PROVE  QueuesFramed(t) /\ PeerFramed(t)
BY DEF QueuesFramed, PeerFramed

\* A handler that answers without giving a channel number.
LEMMA PlainAnswer ==
    ASSUME ChannelInv, UNCHANGED heap,
           \A e \in Entry : /\ chan'[e].cid = chan[e].cid /\ chan'[e].dcid = chan[e].dcid
                            /\ chan'[e].connect_initiate = chan[e].connect_initiate,
           NEW s \in Slot, NEW codes, Incoming(s, codes), "ConnRsp" \notin codes,
           NEW M, NEW msgs \in Seq(M), Answer(s, msgs),
           \A m \in Range(msgs) : ~Offer(m) /\ m.code # "SABM"
    PROVE  ChannelsKnown'
<1>1. /\ Head(toDev[s]) \in Range(toDev[s]) /\ Range(toDev'[s]) \subseteq Range(toDev[s])
      /\ Range(toDev[s]) \subseteq Range(toDev'[s]) \cup {Head(toDev[s])}
      /\ toPeer'[s] = toPeer[s] \o msgs
      /\ Range(toPeer'[s]) = Range(toPeer[s]) \cup Range(msgs)
      /\ peer' = peer
      /\ \A t \in Slot \ {s} : toDev'[t] = toDev[t] /\ toPeer'[t] = toPeer[t]
  BY AnswerQueues DEF ChannelInv
<1>2. Head(toDev[s]).code # "ConnRsp"
  BY DEF Incoming
<1>3. OfferedOnce(toPeer[s]) => OfferedOnce(toPeer'[s])
  <2>1. toPeer[s] \in Seq(Message \cup M) /\ msgs \in Seq(Message \cup M)
    BY SeqMonotonic DEF ChannelInv, IInv, TypeOK
  <2>. QED  BY <1>1, <2>1, NoOffers
<1>4. QueuesFramed(s) /\ PeerFramed(s)
  BY <1>1, <1>2, <1>3 DEF QueuesFramed, PeerFramed, SabmGood
<1>5. \A t \in Slot : QueuesFramed(t) /\ PeerFramed(t)
  BY <1>1, <1>4, LinkStays
<1>. QED  BY <1>5, FieldsStay, FramedSteps DEF Framed

LEMMA PlainHandlers ==
    ASSUME ChannelInv, NEW s \in Slot,
           \/ ConfigurationRequest(s) \/ ConfigurationResponse(s)
           \/ DisconnectionRequest(s) \/ EchoRequest(s) \/ InfoRequest(s) \/ CommandReject(s)
    PROVE  ChannelsKnown'
<1>. DEFINE m == Head(toDev[s])
            Fields3 == \A e \in Entry :
                          /\ chan'[e].cid = chan[e].cid /\ chan'[e].dcid = chan[e].dcid
                          /\ chan'[e].connect_initiate = chan[e].connect_initiate
<1>1. chan \in [Entry -> Channel]
  BY DEF ChannelInv, IInv, TypeOK
<1>2. ASSUME NEW e \in Entry, NEW opt, chan' = [chan EXCEPT ![e].conf_opt = opt]
      PROVE  Fields3
  BY <1>1, <1>2 DEF Channel
<1>3. /\ UNCHANGED heap /\ Fields3
      /\ \E codes : /\ Incoming(s, codes) /\ "ConnRsp" \notin codes
                    /\ \/ Answer(s, <<>>)
                       \/ \E a : Answer(s, <<a>>) /\ ~Offer(a) /\ a.code # "SABM"
  <2>1. CASE ConfigurationRequest(s)
    <3>1. UNCHANGED heap /\ Incoming(s, {"ConfReq"}) /\ "ConnRsp" \notin {"ConfReq"}
      BY <2>1, ZenonT(40) DEF ConfigurationRequest
    <3>2. Fields3
      <4>1. CASE UNCHANGED chan
        BY <4>1
      <4>2. CASE \E e \in Entry : \E opt : chan' = [chan EXCEPT ![e].conf_opt = opt]
        BY <1>2, <4>2
      <4>. HIDE DEF Fields3
      <4>. QED  BY <2>1, <4>1, <4>2 DEF ConfigurationRequest
    <3>3. \A id, d, r, h : ~Offer(ConfRsp(id, d, r, h)) /\ ConfRsp(id, d, r, h).code # "SABM"
      BY DEF ConfRsp, Offer
    <3>4. \E a : Answer(s, <<a>>) /\ ~Offer(a) /\ a.code # "SABM"
      <4>1. \E id, d, r, h : Answer(s, <<ConfRsp(id, d, r, h)>>)
        BY <2>1, Zenon DEF ConfigurationRequest
      <4>. QED  BY <3>3, <4>1
    <3>. QED  BY <3>1, <3>2, <3>4
  <2>2. CASE ConfigurationResponse(s)
    <3>1. /\ UNCHANGED heap /\ Incoming(s, {"ConfRsp"}) /\ Answer(s, <<>>)
          /\ "ConnRsp" \notin {"ConfRsp"}
      BY <2>2 DEF ConfigurationResponse
    <3>2. Fields3
      <4>1. CASE UNCHANGED chan
        BY <4>1
      <4>2. CASE \E e \in Entry : \E opt : chan' = [chan EXCEPT ![e].conf_opt = opt]
        BY <1>2, <4>2
      <4>. HIDE DEF Fields3
      <4>. QED  BY <2>2, <4>1, <4>2 DEF ConfigurationResponse
    <3>. QED  BY <3>1, <3>2
  <2>3. CASE DisconnectionRequest(s)
    <3>1. \A id, d, c : ~Offer(DiscRsp(id, d, c)) /\ DiscRsp(id, d, c).code # "SABM"
      BY DEF DiscRsp, Offer
    <3>2. /\ UNCHANGED <<heap, chan>> /\ Incoming(s, {"DiscReq"}) /\ "ConnRsp" \notin {"DiscReq"}
          /\ Answer(s, <<DiscRsp(m.id, m.dcid, m.scid)>>)
      BY <2>3 DEF DisconnectionRequest, device
    <3>. QED  BY <3>1, <3>2
  <2>4. CASE EchoRequest(s)
    <3>1. \A id : ~Offer(Bare("EchoRsp", id)) /\ Bare("EchoRsp", id).code # "SABM"
      BY DEF Bare, Offer
    <3>2. /\ UNCHANGED <<heap, chan>> /\ Incoming(s, {"EchoReq"}) /\ "ConnRsp" \notin {"EchoReq"}
          /\ Answer(s, <<Bare("EchoRsp", m.id)>>)
      BY <2>4 DEF EchoRequest, device
    <3>. QED  BY <3>1, <3>2
  <2>5. CASE InfoRequest(s)
    <3>1. \A id : ~Offer(Bare("InfoRsp", id)) /\ Bare("InfoRsp", id).code # "SABM"
      BY DEF Bare, Offer
    <3>2. /\ UNCHANGED <<heap, chan>> /\ Incoming(s, {"InfoReq"}) /\ "ConnRsp" \notin {"InfoReq"}
          /\ Answer(s, <<Bare("InfoRsp", 0)>>)
      BY <2>5 DEF InfoRequest, device
    <3>. QED  BY <3>1, <3>2
  <2>6. CASE CommandReject(s)
    <3>1. /\ UNCHANGED <<heap, chan>> /\ Incoming(s, {"Reject"}) /\ "ConnRsp" \notin {"Reject"}
          /\ Answer(s, <<>>)
      BY <2>6 DEF CommandReject, device
    <3>. QED  BY <3>1
  <2>. QED  BY <2>1, <2>2, <2>3, <2>4, <2>5, <2>6, SMTT(30)
<1>4. PICK codes : /\ Incoming(s, codes) /\ "ConnRsp" \notin codes
                   /\ \/ Answer(s, <<>>)
                      \/ \E a : Answer(s, <<a>>) /\ ~Offer(a) /\ a.code # "SABM"
  BY <1>3
<1>5. CASE Answer(s, <<>>)
  <2>1. <<>> \in Seq({}) /\ \A a \in Range(<<>>) : ~Offer(a) /\ a.code # "SABM"
    BY RangeShort
  <2>. QED  BY <1>3, <1>4, <1>5, <2>1, PlainAnswer
<1>6. CASE \E a : Answer(s, <<a>>) /\ ~Offer(a) /\ a.code # "SABM"
  <2>1. PICK a : Answer(s, <<a>>) /\ ~Offer(a) /\ a.code # "SABM"
    BY <1>6
  <2>2. <<a>> \in Seq({a}) /\ \A b \in Range(<<a>>) : ~Offer(b) /\ b.code # "SABM"
    BY <2>1, RangeShort
  <2>. QED  BY <1>3, <1>4, <2>1, <2>2, PlainAnswer
<1>. QED  BY <1>4, <1>5, <1>6

\* Steps of the peers, the link and the button leave the device as it is.
LEMMA DeviceFramed ==
    ASSUME ChannelInv, UNCHANGED device
    PROVE  FreeEntriesBlank' /\ (PoolLeft' => PoolLeft) /\ \A t \in Slot : ListFramed(t)
<1>1. UNCHANGED heap /\ UNCHANGED chan
  BY DEF device
<1>. QED  BY <1>1, FieldsStay

LEMMA ButtonFramed ==
    ASSUME ChannelInv, rfcomm_connect_request
    PROVE  ChannelsKnown'
<1>. DEFINE conn == get_l2cap_conn_from_channel_id(TestSlot, tmp_chid % CHID_SIZE)
<1>1. /\ conn \in Entry /\ UNCHANGED <<device, toDev, peer>>
      /\ toPeer' = [toPeer EXCEPT ![TestSlot] = Append(toPeer[TestSlot], Sabm(chan[conn].dcid))]
  BY DEF rfcomm_connect_request
<1>2. TestSlot \in Slot
  BY ChannelAssumption
<1>3. toPeer \in [Slot -> Seq(Message)] /\ toPeer[TestSlot] \in Seq(Message)
  BY <1>2 DEF ChannelInv, IInv, TypeOK
<1>4. conn \in Owned(TestSlot)
  <2>1. conn # NULL
    BY <1>1, Entries
  <2>. QED  BY <1>2, <2>1, Lookup DEF ChannelInv
<1>5. PICK m : m = Sabm(chan[conn].dcid)
  OBVIOUS
<1>6. SabmGood(m, TestSlot) /\ ~Offer(m)
  <2>1. chan[conn].dcid \in PeerNumbers(TestSlot) \cup {0}
    BY <1>2, <1>4 DEF ChannelInv, ChannelsKnown, NumbersKnown
  <2>. HIDE DEF conn
  <2>. QED  BY <1>5, <2>1 DEF Sabm, SabmGood, Offer
<1>7. /\ toPeer'[TestSlot] = toPeer[TestSlot] \o <<m>>
      /\ Range(toPeer'[TestSlot]) = Range(toPeer[TestSlot]) \cup {m}
      /\ \A t \in Slot \ {TestSlot} : toPeer'[t] = toPeer[t]
  <2>1. toPeer' = [toPeer EXCEPT ![TestSlot] = Append(toPeer[TestSlot], m)]
    BY <1>1, <1>5
  <2>. QED  BY <1>2, <1>3, <2>1, RangeAppend
<1>8. OfferedOnce(toPeer[TestSlot]) => OfferedOnce(toPeer'[TestSlot])
  <2>1. /\ toPeer[TestSlot] \in Seq(Message \cup {m}) /\ <<m>> \in Seq(Message \cup {m})
        /\ \A b \in Range(<<m>>) : ~Offer(b)
    BY <1>3, <1>6, SeqMonotonic, RangeShort
  <2>2. PICK one : one = <<m>>
    OBVIOUS
  <2>. QED  BY <1>7, <2>1, <2>2, NoOffers
<1>9. QueuesFramed(TestSlot) /\ PeerFramed(TestSlot)
  BY <1>1, <1>6, <1>7, <1>8 DEF QueuesFramed, PeerFramed
<1>10. \A t \in Slot : QueuesFramed(t) /\ PeerFramed(t)
  BY <1>1, <1>7, <1>9, LinkStays
<1>11. UNCHANGED device
  BY <1>1
<1>. QED  BY <1>10, <1>11, DeviceFramed, FramedSteps DEF Framed

LEMMA LinkDownKnown ==
    ASSUME ChannelInv, NEW s \in Slot, LinkDown(s)
    PROVE  ChannelsKnown'
<1>1. /\ UNCHANGED device
      /\ toPeer'[s] = <<>> /\ toDev'[s] = <<>> /\ peer'[s] = {}
      /\ \A t \in Slot \ {s} : toDev'[t] = toDev[t] /\ toPeer'[t] = toPeer[t] /\ peer'[t] = peer[t]
  BY DEF LinkDown, ChannelInv, IInv, TypeOK
<1>2. FreeEntriesBlank' /\ (PoolLeft' => PoolLeft) /\ \A t \in Slot : ListFramed(t)
  BY <1>1, DeviceFramed
<1>3. \A t \in Slot \ {s} : Framed(t)
  BY <1>1, <1>2, LinkStays DEF Framed
<1>4. NumbersKnown(s)'
  BY <1>1, <1>2, RangeShort DEF NumbersKnown, ListFramed, ChannelInv, ChannelsKnown
<1>5. Promise(s)'
  <2>1. OfferedOnce(<<>>)
    BY DEF OfferedOnce
  <2>. QED  BY <1>1, <2>1, RangeShort
            DEF Promise, OffersGood, AcceptancesGood, ChannelsGood, PairsUnique, OfferedOnce
<1>. QED  BY <1>2, <1>3, <1>4, <1>5, OneLinkSteps

\* A peer takes a message and answers without a number, or asks for none.
LEMMA PlainConsume ==
    ASSUME ChannelInv, UNCHANGED device, NEW s \in Slot, NEW codes, Arrived(s, codes),
           NEW M, NEW msgs \in Seq(M), Consume(s, msgs),
           \A m \in Range(msgs) : m.code # "ConnRsp" /\ NamesPeer(m, s),
           PeerFramed(s), \A t \in Slot \ {s} : peer'[t] = peer[t]
    PROVE  ChannelsKnown'
<1>1. /\ toPeer'[s] = Tail(toPeer[s])
      /\ Range(toPeer'[s]) \subseteq Range(toPeer[s])
      /\ Range(toDev'[s]) = Range(toDev[s]) \cup Range(msgs)
      /\ \A t \in Slot \ {s} : toDev'[t] = toDev[t] /\ toPeer'[t] = toPeer[t]
  BY ConsumeQueues DEF ChannelInv
<1>2. OfferedOnce(toPeer[s]) => OfferedOnce(toPeer'[s])
  BY <1>1, OnceTail DEF ChannelInv, IInv, TypeOK, Arrived
<1>3. QueuesFramed(s)
  BY <1>1, <1>2 DEF QueuesFramed
<1>4. \A t \in Slot : QueuesFramed(t) /\ PeerFramed(t)
  BY <1>1, <1>3, LinkStays
<1>. QED  BY <1>4, DeviceFramed, FramedSteps DEF Framed

LEMMA PlainAsk ==
    ASSUME ChannelInv, UNCHANGED device, UNCHANGED toPeer, NEW s \in Slot,
           NEW m, Ask(s, m), m.code \notin {"ConnReq", "ConnRsp"},
           PeerFramed(s), \A t \in Slot \ {s} : peer'[t] = peer[t]
    PROVE  ChannelsKnown'
<1>1. /\ Range(toDev'[s]) = Range(toDev[s]) \cup {m}
      /\ \A t \in Slot \ {s} : toDev'[t] = toDev[t]
  BY AskQueues DEF ChannelInv
<1>2. QueuesFramed(s)
  BY <1>1 DEF QueuesFramed, NamesPeer
<1>3. \A t \in Slot : QueuesFramed(t) /\ PeerFramed(t)
  BY <1>1, <1>2, LinkStays
<1>. QED  BY <1>3, DeviceFramed, FramedSteps DEF Framed

LEMMA PlainPeerSteps ==
    ASSUME ChannelInv, NEW s \in Slot, UNCHANGED <<device, up, left>>,
           \/ PeerConfigureResponse(s) \/ PeerSabm(s)
           \/ PeerAnswered(s) /\ Head(toPeer[s]).code # "ConnRsp"
    PROVE  ChannelsKnown'
<1>. DEFINE m == Head(toPeer[s])
<1>1. UNCHANGED device
  OBVIOUS
<1>2. <<>> \in Seq({}) /\ \A r \in Range(<<>>) : r.code # "ConnRsp" /\ NamesPeer(r, s)
  BY RangeShort
<1>3. CASE PeerConfigureResponse(s)
  <2>1. \E r : /\ Arrived(s, {"ConfReq"}) /\ Consume(s, <<r>>) /\ UNCHANGED peer
               /\ r.code \in {"ConfRsp", "Reject"}
    <3>1. \A id, d, r, h : ConfRsp(id, d, r, h).code = "ConfRsp"
      BY DEF ConfRsp
    <3>2. \A id : Bare("Reject", id).code = "Reject"
      BY DEF Bare
    <3>3. /\ Arrived(s, {"ConfReq"}) /\ UNCHANGED peer
          /\ \/ \E id, d, r, h : Consume(s, <<ConfRsp(id, d, r, h)>>)
             \/ \E id : Consume(s, <<Bare("Reject", id)>>)
      BY <1>3, Zenon DEF PeerConfigureResponse
    <3>. QED  BY <3>1, <3>2, <3>3
  <2>2. PICK r : /\ Arrived(s, {"ConfReq"}) /\ Consume(s, <<r>>) /\ UNCHANGED peer
                 /\ r.code \in {"ConfRsp", "Reject"}
    BY <2>1
  <2>3. /\ <<r>> \in Seq({r})
        /\ \A a \in Range(<<r>>) : a.code # "ConnRsp" /\ NamesPeer(a, s)
    BY <2>2, RangeShort DEF NamesPeer
  <2>4. PeerFramed(s) /\ \A t \in Slot \ {s} : peer'[t] = peer[t]
    BY <2>2 DEF PeerFramed
  <2>. QED  BY <1>1, <2>2, <2>3, <2>4, PlainConsume
<1>4. CASE PeerSabm(s)
  <2>1. Arrived(s, {"SABM"}) /\ Consume(s, <<>>) /\ UNCHANGED peer
    BY <1>4 DEF PeerSabm
  <2>2. PeerFramed(s) /\ \A t \in Slot \ {s} : peer'[t] = peer[t]
    BY <2>1 DEF PeerFramed
  <2>. QED  BY <1>1, <1>2, <2>1, <2>2, PlainConsume
<1>5. CASE PeerAnswered(s) /\ m.code # "ConnRsp"
  <2>1. /\ Arrived(s, Responses)
        /\ Consume(s, <<>>)
    BY <1>5 DEF PeerAnswered
  <2>2. PeerFramed(s) /\ \A t \in Slot \ {s} : peer'[t] = peer[t]
    <3>1. CASE m.code # "ConfRsp"
      <4>1. UNCHANGED peer
        BY <1>5, <3>1 DEF PeerAnswered
      <4>. QED  BY <4>1 DEF PeerFramed
    <3>2. CASE m.code = "ConfRsp"
      <4>. DEFINE adopt(c) == [mtu |-> IF m.opt.mtu = "none" THEN c.opt.mtu ELSE m.opt.mtu,
                               fto |-> IF m.opt.fto = "none" THEN c.opt.fto ELSE m.opt.fto]
                  changed(c) ==
                      IF m.code = "ConnRsp" THEN [c EXCEPT !.dev = m.dcid]
                      ELSE IF c.cfg # "sent" THEN c
                      ELSE IF m.result = "success" THEN [c EXCEPT !.cfg = "done"]
                      ELSE [c EXCEPT !.cfg = IF adopt(c) = c.opt THEN "failed" ELSE "refused",
                                     !.opt = adopt(c)]
      <4>1. peer' = [peer EXCEPT ![s] = {IF c.own = m.scid THEN changed(c) ELSE c : c \in peer[s]}]
        BY <3>2, <1>5 DEF PeerAnswered, Update
      <4>2. m.opt \in Options
        BY <3>2, <2>1, PeerReceived, Fields DEF ChannelInv
      <4>3. ASSUME NEW c \in PeerChannel
            PROVE  /\ changed(c) \in PeerChannel
                   /\ changed(c).own = c.own /\ changed(c).dev = c.dev
        <5>1. adopt(c) \in Options
          BY <4>2 DEF Options, PeerChannel
        <5>. HIDE DEF adopt
        <5>. QED  BY <3>2, <5>1 DEF PeerChannel
      <4>4. PICK new : new = [c \in PeerChannel |-> changed(c)]
        OBVIOUS
      <4>5. PICK own : own = m.scid
        OBVIOUS
      <4>. HIDE DEF changed
      <4>6. /\ new \in [PeerChannel -> PeerChannel]
            /\ \A c \in PeerChannel : new[c] = changed(c)
        BY <4>3, <4>4
      <4>7. \A c \in PeerChannel : new[c].own = c.own /\ new[c].dev = c.dev
        BY <4>3, <4>6
      <4>8. \A c \in peer[s] : changed(c) = new[c]
        BY <4>6 DEF ChannelInv, IInv, TypeOK
      <4>9. peer' = [peer EXCEPT ![s] = {IF c.own = own THEN new[c] ELSE c : c \in peer[s]}]
        BY <4>1, <4>5, <4>8
      <4>10. /\ peer \in [Slot -> SUBSET PeerChannel] /\ peer[s] \subseteq PeerChannel
             /\ peer'[s] = {IF c.own = own THEN new[c] ELSE c : c \in peer[s]}
             /\ \A t \in Slot \ {s} : peer'[t] = peer[t]
        BY <4>9 DEF ChannelInv, IInv, TypeOK
      <4>. QED  BY <4>7, <4>10, SMTT(30) DEF PeerFramed
    <3>. QED  BY <3>1, <3>2
  <2>. QED  BY <1>1, <1>2, <2>1, <2>2, PlainConsume
<1>. QED  BY <1>3, <1>4, <1>5

LEMMA PlainAskerSteps ==
    ASSUME ChannelInv, NEW s \in Slot,
           \/ PeerDisconnect(s) \/ PeerPing(s)
           \/ \E own \in PeerNumbers(s) : PeerConfigure(s, own)
    PROVE  ChannelsKnown'
<1>1. CASE PeerDisconnect(s)
  <2>. DEFINE closed(d) == [d EXCEPT !.cfg = "closed"]
  <2>1. PICK c \in peer[s] :
           /\ Ask(s, DiscReq(NewId(s), c.dev, c.own))
           /\ peer' = [peer EXCEPT ![s] =
                 {IF d.own = c.own THEN closed(d) ELSE d : d \in peer[s]}]
    BY <1>1 DEF PeerDisconnect, Update
  <2>2. UNCHANGED device /\ UNCHANGED toPeer
    BY <1>1 DEF PeerDisconnect
  <2>3. PICK m : m = DiscReq(NewId(s), c.dev, c.own)
    OBVIOUS
  <2>4. Ask(s, m) /\ m.code \notin {"ConnReq", "ConnRsp"}
    BY <2>1, <2>3 DEF DiscReq
  <2>5. PeerFramed(s) /\ \A t \in Slot \ {s} : peer'[t] = peer[t]
    <3>1. PICK new, own : new = [d \in PeerChannel |-> closed(d)] /\ own = c.own
      OBVIOUS
    <3>2. ASSUME NEW d \in PeerChannel
          PROVE  closed(d) \in PeerChannel /\ closed(d).own = d.own /\ closed(d).dev = d.dev
      BY DEF PeerChannel
    <3>. HIDE DEF closed
    <3>3. /\ new \in [PeerChannel -> PeerChannel]
          /\ \A d \in PeerChannel : new[d] = closed(d)
      BY <3>1, <3>2
    <3>4. \A d \in PeerChannel : new[d].own = d.own /\ new[d].dev = d.dev
      BY <3>2, <3>3
    <3>5. \A d \in peer[s] : new[d] = closed(d)
      BY <3>3 DEF ChannelInv, IInv, TypeOK
    <3>6. peer' = [peer EXCEPT ![s] = {IF d.own = own THEN new[d] ELSE d : d \in peer[s]}]
      BY <2>1, <3>1, <3>5
    <3>7. /\ peer \in [Slot -> SUBSET PeerChannel] /\ peer[s] \subseteq PeerChannel
          /\ peer'[s] = {IF d.own = own THEN new[d] ELSE d : d \in peer[s]}
          /\ \A t \in Slot \ {s} : peer'[t] = peer[t]
      BY <3>6 DEF ChannelInv, IInv, TypeOK
    <3>. QED  BY <3>4, <3>7 DEF PeerFramed
  <2>. QED  BY <2>2, <2>4, <2>5, PlainAsk
<1>2. CASE PeerPing(s)
  <2>1. PICK code \in {"EchoReq", "InfoReq"} : Ask(s, Bare(code, NewId(s)))
    BY <1>2 DEF PeerPing
  <2>2. UNCHANGED device /\ UNCHANGED toPeer /\ UNCHANGED peer
    BY <1>2 DEF PeerPing
  <2>3. PICK m : m = Bare(code, NewId(s))
    OBVIOUS
  <2>4. Ask(s, m) /\ m.code \notin {"ConnReq", "ConnRsp"}
    BY <2>1, <2>3 DEF Bare
  <2>5. PeerFramed(s) /\ \A t \in Slot \ {s} : peer'[t] = peer[t]
    BY <2>2 DEF PeerFramed
  <2>. QED  BY <2>2, <2>4, <2>5, PlainAsk
<1>3. ASSUME NEW own \in PeerNumbers(s), PeerConfigure(s, own) PROVE ChannelsKnown'
  <2>. DEFINE sent(d, opt) == [d EXCEPT !.cfg = "sent", !.opt = opt]
              After(opt) == {IF d.own = own THEN sent(d, opt) ELSE d : d \in peer[s]}
  <2>1. PICK c \in peer[s], opt \in Options :
           /\ Ask(s, ConfReq(NewId(s), c.dev, opt))
           /\ peer' = [peer EXCEPT ![s] = After(opt)]
    <3>1. PICK c \in peer[s] :
             \E opt \in IF c.cfg = "new" THEN ProposedOptions[own % 100] ELSE {c.opt} :
                /\ Ask(s, ConfReq(NewId(s), c.dev, opt))
                /\ peer' = [peer EXCEPT ![s] = After(opt)]
      BY <1>3 DEF PeerConfigure, Update
    <3>2. c \in PeerChannel
      BY DEF ChannelInv, IInv, TypeOK
    <3>3. ProposedOptions[own % 100] \subseteq Options /\ c.opt \in Options
      <4>1. own % 100 \in 1..(L2CAP_CONN_POOL_SIZE + MaxRequests)
        BY Numbers
      <4>. QED  BY <3>2, <4>1, AnswerAssumption DEF PeerChannel
    <3>4. (IF c.cfg = "new" THEN ProposedOptions[own % 100] ELSE {c.opt}) \subseteq Options
      BY <3>3
    <3>. HIDE DEF After
    <3>. QED  BY <3>1, <3>4
  <2>2. UNCHANGED device /\ UNCHANGED toPeer
    BY <1>3 DEF PeerConfigure
  <2>3. PICK m : m = ConfReq(NewId(s), c.dev, opt)
    OBVIOUS
  <2>4. Ask(s, m) /\ m.code \notin {"ConnReq", "ConnRsp"}
    BY <2>1, <2>3 DEF ConfReq
  <2>5. PeerFramed(s) /\ \A t \in Slot \ {s} : peer'[t] = peer[t]
    <3>1. PICK new : new = [d \in PeerChannel |-> sent(d, opt)]
      OBVIOUS
    <3>2. ASSUME NEW d \in PeerChannel
          PROVE  /\ sent(d, opt) \in PeerChannel
                 /\ sent(d, opt).own = d.own /\ sent(d, opt).dev = d.dev
      BY DEF PeerChannel
    <3>. HIDE DEF sent
    <3>3. /\ new \in [PeerChannel -> PeerChannel]
          /\ \A d \in PeerChannel : new[d] = sent(d, opt)
      BY <3>1, <3>2
    <3>4. \A d \in PeerChannel : new[d].own = d.own /\ new[d].dev = d.dev
      BY <3>2, <3>3
    <3>5. \A d \in peer[s] : new[d] = sent(d, opt)
      BY <3>3 DEF ChannelInv, IInv, TypeOK
    <3>6. peer' = [peer EXCEPT ![s] = {IF d.own = own THEN new[d] ELSE d : d \in peer[s]}]
      BY <2>1, <3>5
    <3>7. /\ peer \in [Slot -> SUBSET PeerChannel] /\ peer[s] \subseteq PeerChannel
          /\ peer'[s] = {IF d.own = own THEN new[d] ELSE d : d \in peer[s]}
          /\ \A t \in Slot \ {s} : peer'[t] = peer[t]
      BY <3>6 DEF ChannelInv, IInv, TypeOK
    <3>. QED  BY <3>4, <3>7 DEF PeerFramed
  <2>. QED  BY <2>2, <2>4, <2>5, PlainAsk
<1>. QED  BY <1>1, <1>2, <1>3


-----------------------------------------------------------------------------
(* Steps that give a channel number away                                     *)

\* The number drawn while the pool has entries is the number of no channel.
LEMMA NumberFresh ==
    ASSUME ChannelInv, PoolLeft
    PROVE  /\ \A t \in Slot : \A e \in Owned(t) : chan[e].cid # gen_l2cap_channel_id
           /\ \A t \in Slot : \A r \in Range(toDev[t]) :
                 r.code = "ConnRsp" => r.scid # gen_l2cap_channel_id
           /\ FreeEntry \in Entry /\ ~Taken(FreeEntry)
           /\ gen_l2cap_channel_id # 0
<1>1. IInv /\ ListsLinked
  BY DEF ChannelInv
<1>2. /\ FreeEntry \in Entry /\ gen_l2cap_channel_id = MIN_L2CAP_CID + FreeEntry
      /\ gen_l2cap_channel_id # 0
  BY <1>1, Drawn DEF PoolLeft
<1>3. ~Taken(FreeEntry)
  BY <1>2, HeadFree DEF Taken, FreeEntry
<1>4. ASSUME NEW e \in Entry, Taken(e) PROVE chan[e].cid # gen_l2cap_channel_id
  <2>1. chan[e].cid = MIN_L2CAP_CID + e /\ e # FreeEntry
    BY <1>1, <1>3, <1>4 DEF IInv, PoolInOrder
  <2>. QED  BY <1>2, <2>1, ChannelAssumption DEF Entry
<1>5. ASSUME NEW t \in Slot, NEW r \in Range(toDev[t]), r.code = "ConnRsp"
      PROVE  r.scid # gen_l2cap_channel_id
  <2>1. toDev[t] \in Seq(Message) /\ AskedFor(toDev[t], "ConnRsp")
    BY <1>1 DEF IInv, TypeOK, RequestsOurs, QueuesOurs
  <2>2. PICK i \in 1..Len(toDev[t]) : toDev[t][i] = r
    BY <2>1, RangeOf
  <2>3. r.scid \in Ours
    BY <1>5, <2>1, <2>2 DEF AskedFor
  <2>4. PICK e \in Entry : chan[e].connect_initiate = "LOCAL" /\ r.scid = chan[e].cid
    BY <2>3 DEF Ours
  <2>5. Taken(e)
    BY <1>1, <2>4 DEF IInv, PoolInOrder
  <2>. QED  BY <1>4, <2>4, <2>5
<1>6. \A t \in Slot : \A e \in Owned(t) : e \in Entry /\ Taken(e)
  BY <1>1, OwnedEntries
<1>. QED  BY <1>2, <1>3, <1>4, <1>5, <1>6

\* A step that takes an entry and sends the peer its number.
LEMMA NewOffer ==
    ASSUME ChannelInv, NEW s \in Slot, NEW new, Takes(s, new),
           new.dcid \in PeerNumbers(s) \cup {0},
           NEW M, NEW msgs \in Seq(M), NEW o,
           Offer(o), Number(o) = gen_l2cap_channel_id,
           o.code = "ConnRsp" => new.connect_initiate = "REMOTE" /\ new.dcid = o.scid,
           \A b \in Range(msgs) : b.code # "SABM" /\ (b = o \/ ~Offer(b)),
           OfferedOnce(msgs),
           toPeer'[s] = toPeer[s] \o msgs,
           Range(toDev'[s]) \subseteq Range(toDev[s]),
           \A m \in Range(toDev[s]) : m.code = "ConnRsp" => m \in Range(toDev'[s]),
           peer' = peer,
           \A t \in Slot \ {s} : toDev'[t] = toDev[t] /\ toPeer'[t] = toPeer[t]
    PROVE  ChannelsKnown'
<1>. DEFINE f == FreeEntry
<1>1. PoolLeft /\ IInv /\ ListsLinked
  BY DEF Takes, ChannelInv
<1>2. /\ chan'[f] = new /\ f \in Entry
      /\ \A e \in Entry \ {f} : chan'[e] = chan[e]
      /\ \A e \in Entry : Taken(e)' <=> Taken(e) \/ e = f
  BY <1>1, EntryTaken DEF Takes, PoolLeft
<1>3. /\ \A t \in Slot : f \notin Owned(t)
      /\ Owned(s)' = Owned(s) \cup {f}
      /\ \A t \in Slot \ {s} : Owned(t)' = Owned(t)
  BY <1>1, ListsGrow
<1>4. /\ \A e \in Owned(s) : chan[e].cid # Number(o)
      /\ \A r \in Range(toDev[s]) : r.code = "ConnRsp" => r.scid # Number(o)
      /\ Number(o) # 0
  BY <1>1, NumberFresh
<1>5. \A t \in Slot : \A e \in Owned(t) : e \in Entry /\ chan'[e] = chan[e]
  BY <1>1, <1>2, <1>3, OwnedEntries
<1>6. new.cid = Number(o)
  BY DEF Takes
<1>7. FreeEntriesBlank'
  BY <1>2 DEF ChannelInv, ChannelsKnown, FreeEntriesBlank
<1>8. \A t \in Slot \ {s} : Framed(t)
  BY <1>3, <1>5, LinkStays DEF Framed, ListFramed
<1>9. Range(toPeer'[s]) = Range(toPeer[s]) \cup Range(msgs)
  <2>1. toPeer[s] \in Seq(Message \cup M) /\ msgs \in Seq(Message \cup M)
    BY <1>1, SeqMonotonic DEF IInv, TypeOK
  <2>. QED  BY <2>1, RangeConcatenation
<1>10. NumbersKnown(s) /\ Promise(s)
  BY <1>1 DEF ChannelInv, ChannelsKnown, PromisesKept
<1>. HIDE DEF f
<1>11. NumbersKnown(s)'
  <2>1. \A e \in Owned(s)' : chan'[e].dcid \in PeerNumbers(s) \cup {0}
    BY <1>2, <1>3, <1>5, <1>10 DEF NumbersKnown
  <2>2. \A m \in Range(toPeer'[s]) : SabmGood(m, s)
    BY <1>9, <1>10 DEF NumbersKnown, SabmGood
  <2>. QED  BY <2>1, <2>2, <1>10 DEF NumbersKnown
<1>12. \A c \in peer[s] : c.dev # Number(o)
  BY <1>4, <1>10 DEF Promise, ChannelsGood
<1>13. OffersGood(s)'
  <2>1. ASSUME NEW m \in Range(toPeer[s]), Offer(m)
        PROVE  /\ \E e \in Owned(s)' :
                    /\ chan'[e].cid = Number(m)
                    /\ m.code = "ConnRsp" => /\ chan'[e].connect_initiate = "REMOTE"
                                             /\ chan'[e].dcid = m.scid
               /\ \A c \in peer[s] : c.dev # Number(m)
               /\ \A r \in Range(toDev[s]) : r.code = "ConnRsp" => r.scid # Number(m)
    BY <1>3, <1>5, <1>10, <2>1 DEF Promise, OffersGood
  <2>2. /\ f \in Owned(s)' /\ chan'[f].cid = Number(o)
        /\ o.code = "ConnRsp" => /\ chan'[f].connect_initiate = "REMOTE"
                                 /\ chan'[f].dcid = o.scid
    BY <1>2, <1>3, <1>6
  <2>3. \A m \in Range(toPeer'[s]) : Offer(m) => m \in Range(toPeer[s]) \/ m = o
    BY <1>9
  <2>. QED  BY <1>4, <1>12, <2>1, <2>2, <2>3 DEF OffersGood
<1>14. OfferedOnce(toPeer[s])'
  <2>1. toPeer[s] \in Seq(Message \cup M) /\ msgs \in Seq(Message \cup M)
    BY <1>1, SeqMonotonic DEF IInv, TypeOK
  <2>2. \A a \in Range(toPeer[s]) : Offer(a) => Number(a) # Number(o)
    BY <1>4, <1>10 DEF Promise, OffersGood
  <2>3. \A a \in Range(toPeer[s]), b \in Range(msgs) : Offer(a) /\ Offer(b) => Number(a) # Number(b)
    BY <2>2
  <2>4. OfferedOnce(toPeer[s])
    BY <1>10 DEF Promise
  <2>5. OfferedOnce(toPeer[s] \o msgs)
    BY <2>1, <2>3, <2>4, OnceMore
  <2>. QED  BY <2>5 DEF OfferedOnce
<1>15. AcceptancesGood(s)'
  BY <1>10 DEF Promise, AcceptancesGood
<1>16. ChannelsGood(s)'
  BY <1>3, <1>5, <1>10 DEF Promise, ChannelsGood, Accepts
<1>17. PairsUnique(s)'
  BY <1>10 DEF Promise, PairsUnique
<1>18. Promise(s)'
  BY <1>13, <1>14, <1>15, <1>16, <1>17 DEF Promise
<1>. QED  BY <1>1, <1>7, <1>8, <1>11, <1>18, OneLinkSteps

LEMMA OneOffer ==
    ASSUME NEW a, NEW b, ~Offer(b)
    PROVE  OfferedOnce(<<a>>) /\ OfferedOnce(<<a, b>>)
BY DEF OfferedOnce

LEMMA LinkUpKnown ==
    ASSUME ChannelInv, NEW s \in Slot, LinkUp(s)
    PROVE  ChannelsKnown'
<1>1. UNCHANGED toDev /\ UNCHANGED peer /\ IInv /\ ListsLinked
  BY DEF LinkUp, ChannelInv
<1>2. CASE ~PoolLeft
  <2>1. UNCHANGED heap /\ UNCHANGED chan /\ UNCHANGED toPeer
    BY <1>2 DEF LinkUp, TakeEntry, PoolLeft
  <2>2. \A t \in Slot : QueuesFramed(t) /\ PeerFramed(t)
    BY <1>1, <2>1, LinkStays
  <2>. QED  BY <2>1, <2>2, FieldsStay, FramedSteps DEF Framed
<1>3. CASE PoolLeft
  <2>1. PICK o : o = ConnReq(gen_l2cap_sig_id, gen_l2cap_channel_id)
    OBVIOUS
  <2>2. PICK new : new = [chan[FreeEntry] EXCEPT !.cid = gen_l2cap_channel_id,
                                                 !.connect_initiate = "LOCAL"]
    OBVIOUS
  <2>3. Takes(s, new)
    BY <1>1, <1>3, <2>2, LinkUpTakes
  <2>4. new.dcid = 0
    <3>1. chan[FreeEntry] \in Channel /\ chan[FreeEntry].dcid = 0
      BY <1>1, <1>3, NumberFresh DEF ChannelInv, ChannelsKnown, FreeEntriesBlank, IInv, TypeOK
    <3>. QED  BY <2>2, <3>1 DEF Channel
  <2>5. Offer(o) /\ Number(o) = gen_l2cap_channel_id /\ o.code = "ConnReq"
    BY <2>1 DEF ConnReq, Offer, Number
  <2>6. PICK one : one = <<o>>
    OBVIOUS
  <2>7. /\ toPeer'[s] = toPeer[s] \o one
        /\ \A t \in Slot \ {s} : toPeer'[t] = toPeer[t]
    <3>1. toPeer' = [toPeer EXCEPT ![s] = Append(toPeer[s], o)]
      BY <1>3, <2>1 DEF LinkUp, PoolLeft
    <3>2. toPeer \in [Slot -> Seq(Message)] /\ toPeer[s] \in Seq(Message)
      BY <1>1 DEF IInv, TypeOK
    <3>. QED  BY <2>6, <3>1, <3>2, RangeAppend
  <2>8. one \in Seq({o}) /\ OfferedOnce(one) /\ \A b \in Range(one) : b = o
    BY <2>6, RangeShort DEF OfferedOnce
  <2>9. \A b \in Range(one) : b.code # "SABM" /\ (b = o \/ ~Offer(b))
    BY <2>5, <2>8
  <2>10. o.code = "ConnRsp" => new.connect_initiate = "REMOTE" /\ new.dcid = o.scid
    BY <2>5
  <2>. QED  BY <1>1, <2>3, <2>4, <2>5, <2>7, <2>8, <2>9, <2>10, NewOffer
<1>. QED  BY <1>2, <1>3

LEMMA ConnectionRequestKnown ==
    ASSUME ChannelInv, NEW s \in Slot, ConnectionRequest(s)
    PROVE  ChannelsKnown'
<1>. DEFINE m == Head(toDev[s])
<1>1. IInv /\ ListsLinked /\ Incoming(s, {"ConnReq"}) /\ m.code = "ConnReq"
  BY DEF ConnectionRequest, ChannelInv, Incoming
<1>2. PICK o, a : /\ o = ConnRsp(m.id, gen_l2cap_channel_id, m.scid, "success")
                  /\ a = ConfReq(gen_l2cap_sig_id, m.scid, OurOptions)
  OBVIOUS
<1>3. PICK msgs : msgs = <<o, a>>
  OBVIOUS
<1>4. Answer(s, msgs)
  BY <1>2, <1>3 DEF ConnectionRequest
<1>5. /\ Offer(o) /\ Number(o) = gen_l2cap_channel_id /\ o.code # "SABM" /\ o.scid = m.scid
      /\ ~Offer(a) /\ a.code # "SABM"
  BY <1>2 DEF ConnRsp, ConfReq, Offer, Number
<1>6. msgs \in Seq({o, a}) /\ Range(msgs) = {o, a} /\ OfferedOnce(msgs)
  <2>1. <<o, a>> \in Seq({o, a}) /\ Range(<<o, a>>) = {o, a}
    BY RangeShort
  <2>2. OfferedOnce(<<o, a>>)
    BY <1>5, OneOffer
  <2>. QED  BY <1>3, <2>1, <2>2
<1>7. /\ m \in Range(toDev[s])
      /\ Range(toDev'[s]) \subseteq Range(toDev[s])
      /\ Range(toDev[s]) \subseteq Range(toDev'[s]) \cup {m}
      /\ toPeer'[s] = toPeer[s] \o msgs
      /\ Range(toPeer'[s]) = Range(toPeer[s]) \cup Range(msgs)
      /\ peer' = peer
      /\ \A t \in Slot \ {s} : toDev'[t] = toDev[t] /\ toPeer'[t] = toPeer[t]
  BY <1>1, <1>4, <1>6, AnswerQueues
<1>. HIDE DEF m
<1>8. \A r \in Range(toDev[s]) : r.code = "ConnRsp" => r \in Range(toDev'[s])
  BY <1>1, <1>7
<1>9. CASE PoolLeft
  <2>1. PICK new : new = [chan[FreeEntry] EXCEPT !.cid = gen_l2cap_channel_id,
                                                 !.dcid = m.scid,
                                                 !.connect_initiate = "REMOTE"]
    OBVIOUS
  <2>2. Takes(s, new)
    BY <1>1, <1>9, <2>1, ConnectionRequestTakes DEF m
  <2>3. new.dcid = m.scid /\ new.connect_initiate = "REMOTE"
    <3>1. chan[FreeEntry] \in Channel
      BY <1>1, <1>9, NumberFresh DEF IInv, TypeOK
    <3>. QED  BY <2>1, <3>1 DEF Channel
  <2>4. m.scid \in PeerNumbers(s)
    BY <1>1, <1>7 DEF ChannelInv, ChannelsKnown, NumbersKnown, NamesPeer
  <2>5. \A b \in Range(msgs) : b.code # "SABM" /\ (b = o \/ ~Offer(b))
    BY <1>5, <1>6
  <2>6. new.dcid \in PeerNumbers(s) \cup {0}
    BY <2>3, <2>4
  <2>7. o.code = "ConnRsp" => new.connect_initiate = "REMOTE" /\ new.dcid = o.scid
    BY <1>5, <2>3
  <2>. QED  BY <1>5, <1>6, <1>7, <1>8, <2>2, <2>5, <2>6, <2>7, NewOffer
<1>10. CASE ~PoolLeft
  <2>1. UNCHANGED heap /\ UNCHANGED chan
    BY <1>10 DEF ConnectionRequest, TakeEntry, PoolLeft
  <2>2. FreeEntriesBlank' /\ (PoolLeft' => PoolLeft) /\ \A t \in Slot : ListFramed(t)
    BY <2>1, FieldsStay
  <2>3. \A t \in Slot \ {s} : Framed(t)
    BY <1>7, <2>2, LinkStays DEF Framed
  <2>4. NumbersKnown(s)'
    BY <1>5, <1>6, <1>7, <2>2
    DEF NumbersKnown, SabmGood, ListFramed, ChannelInv, ChannelsKnown
  <2>5. ~PoolLeft'
    BY <1>10, <2>2
  <2>. QED  BY <2>2, <2>3, <2>4, <2>5, OneLinkSteps
<1>. QED  BY <1>9, <1>10

-----------------------------------------------------------------------------
(* Steps that answer an offer                                                *)

\* A number given away in the oldest message is in no other.
LEMMA OnceHead ==
    ASSUME NEW S, NEW q \in Seq(S), q # <<>>, OfferedOnce(q), Offer(Head(q))
    PROVE  \A a \in Range(Tail(q)) : Offer(a) => Number(a) # Number(Head(q))
<1>1. /\ Head(q) = q[1] /\ Tail(q) \in Seq(S) /\ Len(Tail(q)) = Len(q) - 1
      /\ \A i \in 1..Len(Tail(q)) : Tail(q)[i] = q[i + 1]
      /\ Len(q) \in Nat /\ Len(q) >= 1
  BY HeadTailProperties, LenProperties, EmptySeq
<1>2. /\ 1 \in 1..Len(q)
      /\ \A i \in 1..Len(Tail(q)) : i + 1 \in 1..Len(q) /\ i + 1 # 1
  BY <1>1
<1>3. ASSUME NEW a \in Range(Tail(q)), Offer(a) PROVE Number(a) # Number(Head(q))
  <2>1. PICK i \in 1..Len(Tail(q)) : Tail(q)[i] = a
    <3>1. Range(Tail(q)) = {Tail(q)[i] : i \in 1..Len(Tail(q))}
      BY <1>1, RangeEquality
    <3>. QED  BY <1>3, <3>1
  <2>2. q[i + 1] = a /\ i + 1 \in 1..Len(q) /\ i + 1 # 1
    BY <1>1, <1>2, <2>1
  <2>. QED  BY <1>1, <1>2, <1>3, <2>2 DEF OfferedOnce
<1>. QED  BY <1>3

\* What the oldest offer to a peer says.
LEMMA HeadOffer ==
    ASSUME ChannelInv, PoolLeft, NEW s \in Slot, NEW codes, Arrived(s, codes),
           Offer(Head(toPeer[s]))
    PROVE  LET m == Head(toPeer[s])
           IN  /\ \E e \in Owned(s) :
                     /\ chan[e].cid = Number(m)
                     /\ m.code = "ConnRsp" => chan[e].dcid = m.scid
               /\ \A c \in peer[s] : c.dev # Number(m)
               /\ \A r \in Range(toDev[s]) : r.code = "ConnRsp" => r.scid # Number(m)
               /\ \A a \in Range(Tail(toPeer[s])) : Offer(a) => Number(a) # Number(m)
<1>1. toPeer[s] \in Seq(Message) /\ toPeer[s] # <<>>
  BY DEF ChannelInv, IInv, TypeOK, Arrived
<1>2. Head(toPeer[s]) \in Range(toPeer[s])
  BY <1>1, RangeTail
<1>3. OffersGood(s) /\ OfferedOnce(toPeer[s])
  BY DEF ChannelInv, ChannelsKnown, PromisesKept, Promise
<1>. QED  BY <1>1, <1>2, <1>3, OnceHead DEF OffersGood

\* A peer answers a request for a channel: with a channel of its own or none.
LEMMA OfferAnswered ==
    ASSUME ChannelInv, UNCHANGED device, NEW s \in Slot, Arrived(s, {"ConnReq"}),
           NEW M, NEW msgs \in Seq(M), Consume(s, msgs),
           NEW Add, peer'[s] = peer[s] \cup Add,
           \A t \in Slot \ {s} : peer'[t] = peer[t],
           \A r \in Range(msgs) :
              /\ r.code = "ConnRsp" /\ r.scid = Head(toPeer[s]).scid
              /\ r.result = "success" => /\ r.dcid \in PeerNumbers(s)
                                         /\ \A c \in Add : c.own = r.dcid,
           \A c \in Add :
              /\ c.dev = Head(toPeer[s]).scid
              /\ \A d \in Add : d.own = c.own
              /\ \A d \in peer[s] : d.own # c.own
              /\ \E r \in Range(msgs) : Accepts(r, c)
    PROVE  ChannelsKnown'
<1>. DEFINE m == Head(toPeer[s])
<1>1. /\ toPeer'[s] = Tail(toPeer[s])
      /\ Range(toPeer'[s]) \subseteq Range(toPeer[s])
      /\ Range(toDev'[s]) = Range(toDev[s]) \cup Range(msgs)
      /\ \A t \in Slot \ {s} : toDev'[t] = toDev[t] /\ toPeer'[t] = toPeer[t]
  BY ConsumeQueues DEF ChannelInv
<1>2. FreeEntriesBlank' /\ (PoolLeft' => PoolLeft) /\ \A t \in Slot : ListFramed(t)
  BY DeviceFramed
<1>3. \A t \in Slot \ {s} : Framed(t)
  BY <1>1, <1>2, LinkStays DEF Framed
<1>4. NumbersKnown(s)'
  BY <1>1, <1>2 DEF NumbersKnown, NamesPeer, ListFramed, ChannelInv, ChannelsKnown
<1>5. ASSUME PoolLeft PROVE Promise(s)'
  <2>1. m.code = "ConnReq" /\ Offer(m) /\ Number(m) = m.scid
    BY DEF Arrived, Offer, Number
  <2>2. /\ \E e \in Owned(s) : chan[e].cid = m.scid
        /\ \A c \in peer[s] : c.dev # m.scid
        /\ \A r \in Range(toDev[s]) : r.code = "ConnRsp" => r.scid # m.scid
        /\ \A a \in Range(toPeer'[s]) : Offer(a) => Number(a) # m.scid
    BY <1>1, <1>5, <2>1, HeadOffer
  <2>3. Promise(s)
    BY <1>5 DEF ChannelInv, ChannelsKnown, PromisesKept
  <2>. HIDE DEF m
  <2>4. \A c \in Add : c.dev = m.scid
    BY DEF m
  <2>5. \A r \in Range(msgs) : r.code = "ConnRsp" /\ r.scid = m.scid
    BY DEF m
  <2>6. OffersGood(s)'
    BY <1>1, <1>2, <2>2, <2>3, <2>4, <2>5 DEF Promise, OffersGood, ListFramed
  <2>7. OfferedOnce(toPeer[s])'
    <3>1. OfferedOnce(Tail(toPeer[s]))
      BY <2>3, OnceTail DEF Promise, ChannelInv, IInv, TypeOK, Arrived
    <3>. QED  BY <1>1, <3>1 DEF OfferedOnce
  <2>8. AcceptancesGood(s)'
    BY <1>1, <2>2, <2>3, <2>4, <2>5 DEF Promise, AcceptancesGood
  <2>9. ChannelsGood(s)'
    <3>1. ASSUME NEW c \in peer[s], c.dev # 0
          PROVE  \E e \in Owned(s)' :
                    /\ chan'[e].cid = c.dev
                    /\ chan'[e].dcid = c.own \/ \E r \in Range(toDev'[s]) : Accepts(r, c)
      BY <1>1, <1>2, <2>3, <3>1 DEF Promise, ChannelsGood, ListFramed
    <3>2. ASSUME NEW c \in Add
          PROVE  \E e \in Owned(s)' :
                    /\ chan'[e].cid = c.dev
                    /\ chan'[e].dcid = c.own \/ \E r \in Range(toDev'[s]) : Accepts(r, c)
      BY <1>1, <1>2, <2>2, <2>4 DEF ListFramed
    <3>. QED  BY <3>1, <3>2 DEF ChannelsGood, Accepts
  <2>10. PairsUnique(s)'
    BY <2>2, <2>3, <2>4 DEF Promise, PairsUnique
  <2>. QED  BY <2>6, <2>7, <2>8, <2>9, <2>10 DEF Promise
<1>. QED  BY <1>2, <1>3, <1>4, <1>5, OneLinkSteps

LEMMA PeerConnectResponseKnown ==
    ASSUME ChannelInv, NEW s \in Slot, PeerConnectResponse(s), UNCHANGED device
    PROVE  ChannelsKnown'
<1>. DEFINE m == Head(toPeer[s])
            reply(result, dcid) == ConnRsp(m.id, dcid, m.scid, result)
<1>1. /\ Arrived(s, {"ConnReq"}) /\ peer \in [Slot -> SUBSET PeerChannel]
  BY DEF PeerConnectResponse, ChannelInv, IInv, TypeOK
<1>2. \A result, dcid :
        /\ reply(result, dcid).code = "ConnRsp" /\ reply(result, dcid).scid = m.scid
        /\ reply(result, dcid).result = result /\ reply(result, dcid).dcid = dcid
  BY DEF ConnRsp
<1>3. PICK result \in ConnectAnswers[s] :
         \/ /\ result = "refused"
            /\ Consume(s, <<reply(result, 0)>>)
            /\ UNCHANGED peer
         \/ /\ result # "refused"
            /\ \E own \in PeerNumbers(s) :
                 /\ IsNewNumber(s, own)
                 /\ peer' = [peer EXCEPT ![s] = @ \cup {Open(own, m.scid)}]
                 /\ Consume(s, (IF result = "pending" THEN <<reply(result, 0)>> ELSE <<>>)
                               \o <<reply("success", own)>>)
  BY DEF PeerConnectResponse
<1>. HIDE DEF reply
<1>4. CASE result = "refused" /\ Consume(s, <<reply(result, 0)>>) /\ UNCHANGED peer
  <2>1. PICK r, msgs : r = reply(result, 0) /\ msgs = <<r>>
    OBVIOUS
  <2>2. Consume(s, msgs) /\ r.code = "ConnRsp" /\ r.scid = m.scid /\ r.result # "success"
    BY <1>2, <1>4, <2>1
  <2>3. msgs \in Seq({r}) /\ Range(msgs) = {r}
    <3>1. <<r>> \in Seq({r}) /\ Range(<<r>>) = {r}
      BY RangeShort
    <3>. QED  BY <2>1, <3>1
  <2>4. PICK Add : Add = {}
    OBVIOUS
  <2>5. peer'[s] = peer[s] \cup Add /\ \A t \in Slot \ {s} : peer'[t] = peer[t]
    BY <1>4, <2>4
  <2>6. /\ \A a \in Range(msgs) :
              /\ a.code = "ConnRsp" /\ a.scid = Head(toPeer[s]).scid
              /\ a.result = "success" => /\ a.dcid \in PeerNumbers(s)
                                         /\ \A d \in Add : d.own = a.dcid
        /\ \A a \in Add :
              /\ a.dev = Head(toPeer[s]).scid
              /\ \A d \in Add : d.own = a.own
              /\ \A d \in peer[s] : d.own # a.own
              /\ \E b \in Range(msgs) : Accepts(b, a)
    BY <2>2, <2>3, <2>4
  <2>7. Arrived(s, {"ConnReq"}) /\ msgs \in Seq({r}) /\ Consume(s, msgs)
    BY <1>1, <2>2, <2>3
  <2>. QED  BY <2>5, <2>6, <2>7, OfferAnswered
<1>5. ASSUME NEW own \in PeerNumbers(s), IsNewNumber(s, own),
             peer' = [peer EXCEPT ![s] = @ \cup {Open(own, m.scid)}],
             Consume(s, (IF result = "pending" THEN <<reply(result, 0)>> ELSE <<>>)
                        \o <<reply("success", own)>>)
      PROVE  ChannelsKnown'
  <2>1. PICK p, r, c : p = reply(result, 0) /\ r = reply("success", own) /\ c = Open(own, m.scid)
    OBVIOUS
  <2>2. PICK before, last : /\ before = IF result = "pending" THEN <<p>> ELSE <<>>
                            /\ last = <<r>>
    OBVIOUS
  <2>3. /\ before \in Seq({p, r}) /\ Range(before) \subseteq {p}
        /\ result # "pending" => Range(before) = {}
    <3>1. <<p>> \in Seq({p, r}) /\ Range(<<p>>) = {p} /\ <<>> \in Seq({p, r}) /\ Range(<<>>) = {}
      BY RangeShort
    <3>. QED  BY <2>2, <3>1
  <2>4. last \in Seq({p, r}) /\ Range(last) = {r}
    <3>1. <<r>> \in Seq({p, r}) /\ Range(<<r>>) = {r}
      BY RangeShort
    <3>. QED  BY <2>2, <3>1
  <2>5. PICK msgs : msgs = before \o last
    OBVIOUS
  <2>6. /\ msgs \in Seq({p, r}) /\ Range(msgs) = Range(before) \cup {r}
        /\ Consume(s, msgs)
    <3>1. Consume(s, msgs)
      BY <1>5, <2>1, <2>2, <2>5
    <3>. QED  BY <2>3, <2>4, <2>5, <3>1, ConcatProperties, RangeConcatenation
  <2>7. /\ p.code = "ConnRsp" /\ p.scid = m.scid /\ p.result = result
        /\ r.code = "ConnRsp" /\ r.scid = m.scid /\ r.result = "success" /\ r.dcid = own
        /\ c.own = own /\ c.dev = m.scid
    BY <1>2, <2>1 DEF Open
  <2>8. PICK Add : Add = {c}
    OBVIOUS
  <2>9. peer'[s] = peer[s] \cup Add /\ \A t \in Slot \ {s} : peer'[t] = peer[t]
    BY <1>1, <1>5, <2>1, <2>8
  <2>. HIDE DEF m
  <2>10. \A a \in Range(msgs) :
            /\ a.code = "ConnRsp" /\ a.scid = m.scid
            /\ a.result = "success" => /\ a.dcid \in PeerNumbers(s)
                                       /\ \A d \in Add : d.own = a.dcid
    <3>1. ASSUME NEW a \in Range(msgs)
          PROVE  a = r \/ (a = p /\ a.result # "success")
      BY <2>3, <2>6, <2>7
    <3>. QED  BY <1>5, <2>7, <2>8, <3>1
  <2>11. \A a \in Add :
            /\ a.dev = m.scid
            /\ \A d \in Add : d.own = a.own
            /\ \A d \in peer[s] : d.own # a.own
            /\ \E b \in Range(msgs) : Accepts(b, a)
    <3>1. Accepts(r, c) /\ r \in Range(msgs)
      BY <2>6, <2>7 DEF Accepts
    <3>2. \A d \in peer[s] : d.own # own
      BY <1>5 DEF IsNewNumber
    <3>. QED  BY <2>7, <2>8, <3>1, <3>2
  <2>12. \A a \in Range(msgs) :
            /\ a.code = "ConnRsp" /\ a.scid = Head(toPeer[s]).scid
            /\ a.result = "success" => /\ a.dcid \in PeerNumbers(s)
                                       /\ \A d \in Add : d.own = a.dcid
    BY <2>10 DEF m
  <2>13. \A a \in Add :
            /\ a.dev = Head(toPeer[s]).scid
            /\ \A d \in Add : d.own = a.own
            /\ \A d \in peer[s] : d.own # a.own
            /\ \E b \in Range(msgs) : Accepts(b, a)
    BY <2>11 DEF m
  <2>14. Arrived(s, {"ConnReq"}) /\ msgs \in Seq({p, r}) /\ Consume(s, msgs)
    BY <1>1, <2>6
  <2>. QED  BY <2>9, <2>12, <2>13, <2>14, OfferAnswered
<1>. QED  BY <1>3, <1>4, <1>5

\* The device's answer tells the peer the number of its channel.
LEMMA PeerAnsweredKnown ==
    ASSUME ChannelInv, NEW s \in Slot, PeerAnswered(s), UNCHANGED device,
           Head(toPeer[s]).code = "ConnRsp"
    PROVE  ChannelsKnown'
<1>. DEFINE m == Head(toPeer[s])
            changed(c) == IF c.own = m.scid THEN [c EXCEPT !.dev = m.dcid] ELSE c
<1>1. /\ Arrived(s, Responses)
      /\ Consume(s, <<>>)
      /\ peer' = [peer EXCEPT ![s] = {changed(c) : c \in peer[s]}]
  BY DEF PeerAnswered, Update
<1>2. <<>> \in Seq({}) /\ Range(<<>>) = {}
  BY RangeShort
<1>3. /\ toPeer'[s] = Tail(toPeer[s])
      /\ Range(toPeer'[s]) \subseteq Range(toPeer[s])
      /\ Range(toDev'[s]) = Range(toDev[s])
      /\ \A t \in Slot \ {s} : toDev'[t] = toDev[t] /\ toPeer'[t] = toPeer[t]
  BY <1>1, <1>2, ConsumeQueues DEF ChannelInv
<1>4. peer \in [Slot -> SUBSET PeerChannel] /\ peer[s] \subseteq PeerChannel
  BY DEF ChannelInv, IInv, TypeOK
<1>5. /\ \A t \in Slot \ {s} : peer'[t] = peer[t]
      /\ peer'[s] = {changed(c) : c \in peer[s]}
  BY <1>1, <1>4
<1>6. \A c \in PeerChannel : /\ changed(c).own = c.own
                             /\ changed(c).dev = IF c.own = m.scid THEN m.dcid ELSE c.dev
  BY DEF PeerChannel
<1>. HIDE DEF changed
<1>7. \A d \in peer'[s] : \E c \in peer[s] :
         d.own = c.own /\ d.dev = IF c.own = m.scid THEN m.dcid ELSE c.dev
  BY <1>4, <1>5, <1>6
<1>8. FreeEntriesBlank' /\ (PoolLeft' => PoolLeft) /\ \A t \in Slot : ListFramed(t)
  BY DeviceFramed
<1>9. \A t \in Slot \ {s} : Framed(t)
  BY <1>3, <1>5, <1>8, LinkStays DEF Framed
<1>10. NumbersKnown(s)'
  BY <1>3, <1>8 DEF NumbersKnown, ListFramed, ChannelInv, ChannelsKnown
<1>11. ASSUME PoolLeft PROVE Promise(s)'
  <2>1. m.code = "ConnRsp" /\ Offer(m) /\ Number(m) = m.dcid
    BY DEF Offer, Number
  <2>2. /\ \E e \in Owned(s) : chan[e].cid = m.dcid /\ chan[e].dcid = m.scid
        /\ \A c \in peer[s] : c.dev # m.dcid
        /\ \A r \in Range(toDev[s]) : r.code = "ConnRsp" => r.scid # m.dcid
        /\ \A a \in Range(toPeer'[s]) : Offer(a) => Number(a) # m.dcid
    BY <1>1, <1>3, <1>11, <2>1, HeadOffer
  <2>3. Promise(s)
    BY <1>11 DEF ChannelInv, ChannelsKnown, PromisesKept
  <2>. HIDE DEF m
  <2>4. OffersGood(s)'
    BY <1>3, <1>7, <1>8, <2>2, <2>3 DEF Promise, OffersGood, ListFramed
  <2>5. OfferedOnce(toPeer[s])'
    <3>1. OfferedOnce(Tail(toPeer[s]))
      BY <1>1, <2>3, OnceTail DEF Promise, ChannelInv, IInv, TypeOK, Arrived
    <3>. QED  BY <1>3, <3>1 DEF OfferedOnce
  <2>6. AcceptancesGood(s)'
    BY <1>3, <1>7, <2>2, <2>3 DEF Promise, AcceptancesGood
  <2>7. ChannelsGood(s)'
    <3>1. ASSUME NEW d \in peer'[s], d.dev # 0
          PROVE  \E e \in Owned(s)' :
                    /\ chan'[e].cid = d.dev
                    /\ chan'[e].dcid = d.own \/ \E r \in Range(toDev'[s]) : Accepts(r, d)
      <4>1. PICK c \in peer[s] :
               d.own = c.own /\ d.dev = IF c.own = m.scid THEN m.dcid ELSE c.dev
        BY <1>7
      <4>2. CASE c.own = m.scid
        BY <1>8, <2>2, <4>1, <4>2 DEF ListFramed
      <4>3. CASE c.own # m.scid
        BY <1>3, <1>8, <2>3, <3>1, <4>1, <4>3 DEF Promise, ChannelsGood, ListFramed, Accepts
      <4>. QED  BY <4>2, <4>3
    <3>. QED  BY <3>1 DEF ChannelsGood, Accepts
  <2>8. PairsUnique(s)'
    BY <1>7, <2>2, <2>3 DEF Promise, PairsUnique
  <2>. QED  BY <2>4, <2>5, <2>6, <2>7, <2>8 DEF Promise
<1>. QED  BY <1>8, <1>9, <1>10, <1>11, OneLinkSteps

-----------------------------------------------------------------------------
(* The other steps of a channel's set-up                                     *)

\* No channel has the number 0.
LEMMA NumbersNotZero ==
    ASSUME ChannelInv, NEW s \in Slot
    PROVE  /\ \A e \in Owned(s) : chan[e].cid # 0
           /\ \A r \in Range(toDev[s]) : r.code = "ConnRsp" => r.scid # 0
<1>1. IInv /\ ListsLinked
  BY DEF ChannelInv
<1>2. ASSUME NEW e \in Entry, Taken(e) PROVE chan[e].cid # 0
  <2>1. chan[e].cid = MIN_L2CAP_CID + e
    BY <1>1, <1>2 DEF IInv, PoolInOrder
  <2>. QED  BY <2>1, ChannelAssumption, PoolAssumption DEF Entry
<1>3. \A e \in Owned(s) : e \in Entry /\ Taken(e)
  BY <1>1, OwnedEntries
<1>4. ASSUME NEW r \in Range(toDev[s]), r.code = "ConnRsp" PROVE r.scid # 0
  <2>1. toDev[s] \in Seq(Message) /\ AskedFor(toDev[s], "ConnRsp")
    BY <1>1 DEF IInv, TypeOK, RequestsOurs, QueuesOurs
  <2>2. PICK i \in 1..Len(toDev[s]) : toDev[s][i] = r
    BY <2>1, RangeOf
  <2>3. r.scid \in Ours
    BY <1>4, <2>1, <2>2 DEF AskedFor
  <2>4. PICK e \in Entry : chan[e].connect_initiate = "LOCAL" /\ r.scid = chan[e].cid
    BY <2>3 DEF Ours
  <2>5. Taken(e)
    BY <1>1, <2>4 DEF IInv, PoolInOrder
  <2>. QED  BY <1>2, <2>4, <2>5
<1>. QED  BY <1>2, <1>3, <1>4

\* A peer asks for a channel under a new number of its own.
LEMMA PeerConnectKnown ==
    ASSUME ChannelInv, NEW s \in Slot, PeerConnect(s)
    PROVE  ChannelsKnown'
<1>1. PICK own \in PeerNumbers(s) :
         /\ IsNewNumber(s, own)
         /\ peer' = [peer EXCEPT ![s] = @ \cup {Open(own, 0)}]
         /\ Ask(s, ConnReq(NewId(s), own))
  BY DEF PeerConnect
<1>2. UNCHANGED device /\ UNCHANGED toPeer
  BY DEF PeerConnect
<1>3. PICK m, c : m = ConnReq(NewId(s), own) /\ c = Open(own, 0)
  OBVIOUS
<1>4. /\ m.code = "ConnReq" /\ m.scid = own /\ c.own = own /\ c.dev = 0
      /\ \A d \in peer[s] : d.own # own
  BY <1>1, <1>3 DEF ConnReq, Open, IsNewNumber
<1>5. /\ Range(toDev'[s]) = Range(toDev[s]) \cup {m}
      /\ \A t \in Slot \ {s} : toDev'[t] = toDev[t]
  BY <1>1, <1>3, AskQueues DEF ChannelInv
<1>6. peer'[s] = peer[s] \cup {c} /\ \A t \in Slot \ {s} : peer'[t] = peer[t]
  BY <1>1, <1>3 DEF ChannelInv, IInv, TypeOK
<1>7. FreeEntriesBlank' /\ (PoolLeft' => PoolLeft) /\ \A t \in Slot : ListFramed(t)
  BY <1>2, DeviceFramed
<1>8. \A t \in Slot \ {s} : Framed(t)
  BY <1>2, <1>5, <1>6, <1>7, LinkStays DEF Framed
<1>9. NumbersKnown(s)'
  BY <1>2, <1>4, <1>5, <1>7 DEF NumbersKnown, NamesPeer, ListFramed, ChannelInv, ChannelsKnown
<1>10. ASSUME PoolLeft PROVE Promise(s)'
  <2>1. Promise(s)
    BY <1>10 DEF ChannelInv, ChannelsKnown, PromisesKept
  <2>2. \A b \in Range(toPeer[s]) : Offer(b) => c.dev # Number(b)
    BY <1>4, <2>1, NumbersNotZero DEF Promise, OffersGood
  <2>3. OffersGood(s)'
    BY <1>2, <1>4, <1>5, <1>6, <1>7, <2>1, <2>2 DEF Promise, OffersGood, ListFramed
  <2>4. OfferedOnce(toPeer[s])'
    BY <1>2, <2>1 DEF Promise, OfferedOnce
  <2>5. AcceptancesGood(s)'
    BY <1>4, <1>5, <1>6, <2>1, NumbersNotZero DEF Promise, AcceptancesGood
  <2>6. ChannelsGood(s)'
    BY <1>4, <1>5, <1>6, <1>7, <2>1 DEF Promise, ChannelsGood, ListFramed, Accepts
  <2>7. PairsUnique(s)'
    BY <1>4, <1>6, <2>1 DEF Promise, PairsUnique
  <2>. QED  BY <2>3, <2>4, <2>5, <2>6, <2>7 DEF Promise
<1>. QED  BY <1>7, <1>8, <1>9, <1>10, OneLinkSteps

\* The device learns the peer's number of a channel it has asked for.
LEMMA ConnectionResponseKnown ==
    ASSUME ChannelInv, NEW s \in Slot, ConnectionResponse(s)
    PROVE  ChannelsKnown'
<1>. DEFINE m == Head(toDev[s])
            conn == get_l2cap_conn_from_channel_id(s, m.scid)
            Learns == m.result = "success" /\ conn # NULL
<1>1. /\ Incoming(s, {"ConnRsp"}) /\ UNCHANGED heap
      /\ IF Learns
           THEN /\ chan' = [chan EXCEPT ![conn].dcid = m.dcid]
                /\ Answer(s, <<ConfReq(gen_l2cap_sig_id, m.dcid, OurOptions)>>)
           ELSE Answer(s, <<>>) /\ UNCHANGED chan
  BY DEF ConnectionResponse
<1>2. IInv /\ ListsLinked /\ chan \in [Entry -> Channel]
  BY DEF ChannelInv, IInv, TypeOK
<1>3. PICK msgs, M : /\ msgs \in Seq(M) /\ Answer(s, msgs)
                     /\ \A b \in Range(msgs) : ~Offer(b) /\ b.code # "SABM"
  <2>1. <<>> \in Seq({}) /\ Range(<<>>) = {}
    BY RangeShort
  <2>2. PICK a : a = ConfReq(gen_l2cap_sig_id, m.dcid, OurOptions)
    OBVIOUS
  <2>3. ~Offer(a) /\ a.code # "SABM" /\ <<a>> \in Seq({a}) /\ Range(<<a>>) = {a}
    BY <2>2, RangeShort DEF ConfReq, Offer
  <2>. QED  BY <1>1, <2>1, <2>2, <2>3
<1>4. /\ m \in Range(toDev[s])
      /\ Range(toDev'[s]) \subseteq Range(toDev[s])
      /\ Range(toDev[s]) \subseteq Range(toDev'[s]) \cup {m}
      /\ toPeer'[s] = toPeer[s] \o msgs
      /\ Range(toPeer'[s]) = Range(toPeer[s]) \cup Range(msgs)
      /\ peer' = peer
      /\ \A t \in Slot \ {s} : toDev'[t] = toDev[t] /\ toPeer'[t] = toPeer[t]
  BY <1>1, <1>2, <1>3, AnswerQueues
<1>5. m.code = "ConnRsp"
  BY <1>1 DEF Incoming
<1>6. /\ conn # NULL => conn \in Owned(s) /\ conn \in Entry /\ chan[conn].cid = m.scid
      /\ \A e \in Owned(s) : chan[e].cid = m.scid => conn # NULL /\ conn = e
  BY <1>2, Lookup
<1>7. \A t \in Slot : \A e \in Owned(t) : e \in Entry /\ Taken(e)
  BY <1>2, OwnedEntries
<1>8. \A t \in Slot : Owned(t)' = Owned(t)
  BY <1>1 DEF Owned
<1>. HIDE DEF m, conn
<1>9. /\ \A e \in Entry : /\ chan'[e].cid = chan[e].cid
                           /\ chan'[e].connect_initiate = chan[e].connect_initiate
                           /\ chan'[e].dcid = IF Learns /\ e = conn THEN m.dcid ELSE chan[e].dcid
  <2>1. CASE Learns
    <3>1. chan' = [chan EXCEPT ![conn] = [chan[conn] EXCEPT !.dcid = m.dcid]] /\ conn \in Entry
      BY <1>1, <1>6, <2>1
    <3>2. /\ chan'[conn] = [chan[conn] EXCEPT !.dcid = m.dcid] /\ chan[conn] \in Channel
          /\ \A e \in Entry \ {conn} : chan'[e] = chan[e]
      BY <1>2, <3>1
    <3>. QED  BY <2>1, <3>2 DEF Channel
  <2>2. CASE ~Learns
    BY <1>1, <2>2
  <2>. QED  BY <2>1, <2>2
<1>10. Learns => m.dcid \in PeerNumbers(s)
  BY <1>4, <1>5 DEF ChannelInv, ChannelsKnown, NumbersKnown, NamesPeer
<1>11. FreeEntriesBlank' /\ (PoolLeft' => PoolLeft)
  <2>1. \A e \in Entry : ~Taken(e)' => ~Taken(e)
    BY <1>1 DEF Taken
  <2>2. FreeEntriesBlank'
    BY <1>6, <1>7, <1>9, <2>1 DEF FreeEntriesBlank, ChannelInv, ChannelsKnown
  <2>. QED  BY <1>1, <2>2 DEF PoolLeft
<1>12. \A t \in Slot \ {s} : Framed(t)
  <2>1. ASSUME NEW t \in Slot \ {s} PROVE ListFramed(t)
    <3>1. conn # NULL => conn \notin Owned(t)
      BY <1>2, <1>6 DEF ListsLinked
    <3>. QED  BY <1>7, <1>8, <1>9, <3>1 DEF ListFramed
  <2>. QED  BY <1>4, <2>1, LinkStays DEF Framed
<1>13. NumbersKnown(s)'
  <2>1. NumbersKnown(s)
    BY DEF ChannelInv, ChannelsKnown
  <2>2. \A e \in Owned(s)' : chan'[e].dcid \in PeerNumbers(s) \cup {0}
    BY <1>7, <1>8, <1>9, <1>10, <2>1 DEF NumbersKnown
  <2>3. \A b \in Range(toPeer'[s]) : SabmGood(b, s)
    BY <1>3, <1>4, <2>1 DEF NumbersKnown, SabmGood
  <2>. QED  BY <1>4, <2>1, <2>2, <2>3 DEF NumbersKnown
<1>14. ASSUME PoolLeft PROVE Promise(s)'
  <2>1. Promise(s)
    BY <1>14 DEF ChannelInv, ChannelsKnown, PromisesKept
  <2>2. OffersGood(s)'
    <3>1. ASSUME NEW b \in Range(toPeer[s]), Offer(b)
          PROVE  \E e \in Owned(s)' :
                    /\ chan'[e].cid = Number(b)
                    /\ b.code = "ConnRsp" => /\ chan'[e].connect_initiate = "REMOTE"
                                             /\ chan'[e].dcid = b.scid
      <4>1. PICK e \in Owned(s) :
               /\ chan[e].cid = Number(b)
               /\ b.code = "ConnRsp" => /\ chan[e].connect_initiate = "REMOTE"
                                        /\ chan[e].dcid = b.scid
        BY <2>1, <3>1 DEF Promise, OffersGood
      <4>2. m.scid # Number(b)
        BY <1>4, <1>5, <2>1, <3>1 DEF Promise, OffersGood
      <4>3. ~(Learns /\ e = conn)
        BY <1>6, <4>1, <4>2
      <4>. QED  BY <1>7, <1>8, <1>9, <4>1, <4>3
    <3>2. \A b \in Range(toPeer'[s]) : Offer(b) => b \in Range(toPeer[s])
      BY <1>3, <1>4
    <3>. QED  BY <1>4, <2>1, <3>1, <3>2 DEF Promise, OffersGood
  <2>3. OfferedOnce(toPeer[s])'
    <3>1. toPeer[s] \in Seq(Message \cup M) /\ msgs \in Seq(Message \cup M)
      BY <1>2, <1>3, SeqMonotonic DEF IInv, TypeOK
    <3>2. OfferedOnce(toPeer[s] \o msgs)
      BY <1>3, <2>1, <3>1, NoOffers DEF Promise
    <3>. QED  BY <1>4, <3>2 DEF OfferedOnce
  <2>4. AcceptancesGood(s)'
    BY <1>4, <2>1 DEF Promise, AcceptancesGood
  <2>5. ChannelsGood(s)'
    <3>1. ASSUME NEW c \in peer[s], c.dev # 0
          PROVE  \E e \in Owned(s)' :
                    /\ chan'[e].cid = c.dev
                    /\ chan'[e].dcid = c.own \/ \E r \in Range(toDev'[s]) : Accepts(r, c)
      <4>1. PICK e \in Owned(s) :
               /\ chan[e].cid = c.dev
               /\ chan[e].dcid = c.own \/ \E r \in Range(toDev[s]) : Accepts(r, c)
        BY <2>1, <3>1 DEF Promise, ChannelsGood
      <4>2. CASE Learns /\ e = conn
        <5>1. c.dev = m.scid
          BY <1>6, <4>1, <4>2
        <5>2. c.own = m.dcid
          BY <1>4, <1>5, <2>1, <4>2, <5>1 DEF Promise, AcceptancesGood
        <5>. QED  BY <1>7, <1>8, <1>9, <4>1, <4>2, <5>2
      <4>3. CASE ~(Learns /\ e = conn)
        <5>1. ~Accepts(m, c)
          BY <1>6, <4>1, <4>3 DEF Accepts
        <5>2. (\E r \in Range(toDev[s]) : Accepts(r, c)) => \E r \in Range(toDev'[s]) : Accepts(r, c)
          BY <1>4, <5>1
        <5>. QED  BY <1>7, <1>8, <1>9, <4>1, <4>3, <5>2
      <4>. QED  BY <4>2, <4>3
    <3>. QED  BY <1>4, <3>1 DEF ChannelsGood, Accepts
  <2>6. PairsUnique(s)'
    BY <1>4, <2>1 DEF Promise, PairsUnique
  <2>. QED  BY <2>2, <2>3, <2>4, <2>5, <2>6 DEF Promise
<1>. QED  BY <1>11, <1>12, <1>13, <1>14, OneLinkSteps

-----------------------------------------------------------------------------
(* All steps together                                                        *)

LEMMA ChannelsInit == Init => ChannelsKnown
<1>. SUFFICES ASSUME Init PROVE ChannelsKnown
  OBVIOUS
<1>1. /\ \A e \in Entry : chan[e].dcid = 0
      /\ \A s \in Slot : toPeer[s] = <<>> /\ toDev[s] = <<>> /\ peer[s] = {}
  BY DEF Init
<1>2. /\ Range(<<>>) = {} /\ OfferedOnce(<<>>)
  BY RangeShort DEF OfferedOnce
<1>3. \A s \in Slot : Owned(s) = {}
  BY <1>2, ListsInit DEF Owned
<1>4. FreeEntriesBlank
  BY <1>1 DEF FreeEntriesBlank
<1>5. ASSUME NEW s \in Slot PROVE NumbersKnown(s) /\ Promise(s)
  <2>1. Owned(s) = {} /\ Range(toPeer[s]) = {} /\ Range(toDev[s]) = {} /\ peer[s] = {}
    BY <1>1, <1>2, <1>3
  <2>2. OfferedOnce(toPeer[s])
    BY <1>1, <1>2
  <2>. QED  BY <2>1, <2>2 DEF NumbersKnown, Promise, OffersGood, AcceptancesGood,
                              ChannelsGood, PairsUnique
<1>. QED  BY <1>4, <1>5 DEF ChannelsKnown, PromisesKept

LEMMA ChannelsStep == ChannelInv /\ [Next]_vars => ChannelsKnown'
<1>. SUFFICES ASSUME ChannelInv, [Next]_vars PROVE ChannelsKnown'
  OBVIOUS
<1>1. CASE UNCHANGED vars
  <2>1. UNCHANGED device /\ UNCHANGED toDev /\ UNCHANGED toPeer /\ UNCHANGED peer
    BY <1>1 DEF vars, device
  <2>2. \A t \in Slot : QueuesFramed(t) /\ PeerFramed(t)
    BY <2>1, LinkStays
  <2>. QED  BY <2>1, <2>2, DeviceFramed, FramedSteps DEF Framed
<1>2. CASE rfcomm_connect_request
  BY <1>2, ButtonFramed
<1>3. ASSUME NEW s \in Slot, LinkUp(s) \/ LinkDown(s) PROVE ChannelsKnown'
  BY <1>3, LinkUpKnown, LinkDownKnown
<1>4. ASSUME NEW s \in Slot, Receive(s) PROVE ChannelsKnown'
  BY <1>4, ConnectionRequestKnown, ConnectionResponseKnown, PlainHandlers DEF Receive
<1>5. ASSUME NEW s \in Slot, PeerReceive(s) PROVE ChannelsKnown'
  <2>1. UNCHANGED <<device, up, left>> /\ UNCHANGED device
    BY <1>5 DEF PeerReceive
  <2>2. CASE PeerConnectResponse(s)
    BY <2>1, <2>2, PeerConnectResponseKnown
  <2>3. CASE PeerAnswered(s) /\ Head(toPeer[s]).code = "ConnRsp"
    BY <2>1, <2>3, PeerAnsweredKnown
  <2>4. CASE \/ PeerConfigureResponse(s) \/ PeerSabm(s)
             \/ PeerAnswered(s) /\ Head(toPeer[s]).code # "ConnRsp"
    BY <2>1, <2>4, PlainPeerSteps
  <2>. QED  BY <1>5, <2>2, <2>3, <2>4 DEF PeerReceive
<1>6. ASSUME NEW s \in Askers,
             \/ PeerConnect(s) \/ PeerDisconnect(s) \/ PeerPing(s)
             \/ \E own \in PeerNumbers(s) : PeerConfigure(s, own)
      PROVE  ChannelsKnown'
  <2>1. s \in Slot
    BY ChannelAssumption
  <2>2. CASE PeerConnect(s)
    BY <2>1, <2>2, PeerConnectKnown
  <2>3. CASE \/ PeerDisconnect(s) \/ PeerPing(s)
             \/ \E own \in PeerNumbers(s) : PeerConfigure(s, own)
    BY <2>1, <2>3, PlainAskerSteps
  <2>. QED  BY <1>6, <2>2, <2>3
<1>. QED  BY <1>1, <1>2, <1>3, <1>4, <1>5, <1>6 DEF Next

LEMMA ChannelsAlways == Spec => []ChannelInv
<1>1. Init => ChannelInv
  BY InitIInv, ListsInit, ChannelsInit DEF ChannelInv
<1>2. ChannelInv /\ [Next]_vars => ChannelInv'
  BY NextIInv, ListsStep, ChannelsStep DEF ChannelInv
<1>. QED  BY <1>1, <1>2, PTL DEF Spec

\* Button S2 sends the SABM to the test device and under one of that device's own
\* channel numbers, or under 0, although responses on every link set tmp_chid: the
\* lookup walks the list of the slot, and its entries know numbers of its peer only.
THEOREM SabmReachesTestDevice == Spec => []SabmAddressed
<1>1. ChannelInv => SabmAddressed
  BY DEF ChannelInv, ChannelsKnown, NumbersKnown, SabmGood, SabmAddressed
<1>. QED  BY <1>1, ChannelsAlways, PTL

\* While l2cap_conn_pool has entries left, a channel a peer was promised, by a
\* connection response or by its own acceptance, has an entry in the list of the
\* peer's slot, and the entry has the peer's number or its acceptance is under way.
THEOREM PromisesAreKept == Spec => []PromisedChannelExists
<1>1. ASSUME ChannelInv PROVE PromisedChannelExists
  <2>1. ASSUME NEW s \in Slot, NEW c \in peer[s], c.dev # 0, PoolLeft
        PROVE  LET e == get_l2cap_conn_from_channel_id(s, c.dev)
               IN  /\ e # NULL
                   /\ \/ chan[e].dcid = c.own
                      \/ \E m \in Range(toDev[s]) : m.code = "ConnRsp" /\ m.dcid = c.own
    <3>1. PICK e \in Owned(s) :
             /\ chan[e].cid = c.dev
             /\ chan[e].dcid = c.own \/ \E r \in Range(toDev[s]) : Accepts(r, c)
      BY <1>1, <2>1 DEF ChannelInv, ChannelsKnown, PromisesKept, Promise, ChannelsGood
    <3>2. /\ get_l2cap_conn_from_channel_id(s, c.dev) # NULL
          /\ get_l2cap_conn_from_channel_id(s, c.dev) = e
      BY <1>1, <3>1, Lookup DEF ChannelInv
    <3>3. PICK conn : conn = get_l2cap_conn_from_channel_id(s, c.dev)
      OBVIOUS
    <3>4. /\ conn # NULL
          /\ \/ chan[conn].dcid = c.own
             \/ \E m \in Range(toDev[s]) : m.code = "ConnRsp" /\ m.dcid = c.own
      BY <3>1, <3>2, <3>3 DEF Accepts
    <3>. QED  BY <3>3, <3>4
  <2>. QED  BY <2>1 DEF PromisedChannelExists, PoolLeft
<1>. QED  BY <1>1, ChannelsAlways, PTL

=============================================================================

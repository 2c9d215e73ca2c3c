------------------------- MODULE CircularQueueProof -------------------------
(***************************************************************************)
(* What the operations of cq.c keep, for every buffer size: as long as the *)
(* caller has made sure of a free slot (cq_add) or of a byte (cq_del,      *)
(* cq_discard), the three counters agree and the bytes keep their order.   *)
(***************************************************************************)
EXTENDS CircularQueue, TLAPS

\* Below 2^16 uint16_t arithmetic does not wrap.
LEMMA NoWrap == \A n \in UInt16 : n % UINT16_MOD = n
  BY BuffSizeAssumption DEF UInt16

\* The sizes in plain arithmetic.
LEMMA ModSizeRange ==
  /\ MODSIZE \in Nat /\ 2 <= MODSIZE /\ MODSIZE + 1 < UINT16_MOD
  /\ BUFFSIZE = MODSIZE + 1 /\ BUFFSIZE \in Nat /\ UINT16_MOD \in Nat
  BY BuffSizeAssumption DEF MODSIZE

\* The empty queue agrees, whether fresh or reset.
LEMMA InitAgrees == cq_init \in Queue /\ Agree(cq_init, MODSIZE)
  BY ModSizeRange DEF cq_init, Queue, Slots, UInt16, Byte, Agree, Used

\* Writing a byte: everything stays in place and the byte is the last one.
LEMMA AddStoreAgrees ==
  ASSUME NEW q \in Queue, NEW ch \in Byte, NEW free \in 1 .. MODSIZE, Agree(q, free)
  PROVE  /\ AddStore(q, ch) \in Queue
         /\ AddStore(q, ch).curfreesize = q.curfreesize
         /\ Agree(AddStore(q, ch), free - 1)
         /\ \A i \in 0 .. Used(free) - 1 : cq_peek(AddStore(q, ch), i) = cq_peek(q, i)
         /\ cq_peek(AddStore(q, ch), Used(free)) = ch
<1> DEFINE r == AddStore(q, ch)
<1>1. /\ q.start \in Slots /\ q.end \in Slots /\ q.curfreesize \in UInt16
      /\ q.buff \in [Slots -> Byte]
  BY DEF Queue
<1>2. /\ r.start = q.start
      /\ r.end = Advance(q.end)
      /\ r.curfreesize = q.curfreesize
      /\ r.buff = [q.buff EXCEPT ![q.end] = ch]
  BY DEF AddStore, Queue
<1>3. Advance(q.end) \in Slots
  BY <1>1, ModSizeRange DEF Advance, Slots
<1>4. r \in Queue
  BY <1>1, <1>3 DEF AddStore, Queue
<1>5. Agree(r, free - 1)
  <2>1. /\ q.start \in 0 .. MODSIZE /\ q.end \in 0 .. MODSIZE
        /\ r.end = IF q.end = MODSIZE THEN 0 ELSE q.end + 1
    BY <1>1, <1>2, ModSizeRange DEF Advance, Slots
  <2>2. q.end = q.start + (MODSIZE - free) \/ q.end = q.start + (MODSIZE - free) - (MODSIZE + 1)
    BY ModSizeRange DEF Agree, Used
  <2>3. \/ r.end = q.start + (MODSIZE - (free - 1))
        \/ r.end = q.start + (MODSIZE - (free - 1)) - (MODSIZE + 1)
    BY <2>1, <2>2, ModSizeRange
  <2>. QED  BY <1>2, <2>3, ModSizeRange DEF Agree, Used
<1>6. \A i \in 0 .. Used(free) - 1 : cq_peek(r, i) = cq_peek(q, i)
  <2> SUFFICES ASSUME NEW i \in 0 .. Used(free) - 1
               PROVE  cq_peek(r, i) = cq_peek(q, i)
    OBVIOUS
  <2>1. SlotOf(q, i) \in Slots /\ SlotOf(q, i) # q.end
    BY <1>1, ModSizeRange DEF SlotOf, Slots, Agree, Used
  <2>2. SlotOf(r, i) = SlotOf(q, i)
    BY <1>2 DEF SlotOf
  <2>. QED  BY <1>1, <1>2, <2>1, <2>2 DEF cq_peek
<1>7. cq_peek(r, Used(free)) = ch
  <2>1. SlotOf(r, Used(free)) = q.end
    BY <1>1, <1>2, ModSizeRange DEF SlotOf, Slots, Agree, Used
  <2>. QED  BY <1>1, <1>2, <2>1 DEF cq_peek
<1>. QED  BY <1>2, <1>4, <1>5, <1>6, <1>7

\* Writing back the decremented counter.
LEMMA AddCountAgrees ==
  ASSUME NEW q \in Queue, NEW n \in 1 .. MODSIZE, NEW free, Agree(q, free)
  PROVE  /\ AddCount(q, n) \in Queue
         /\ AddCount(q, n).curfreesize = n - 1
         /\ Agree(AddCount(q, n), free)
         /\ \A i \in Nat : cq_peek(AddCount(q, n), i) = cq_peek(q, i)
<1>1. n - 1 \in UInt16 /\ Decremented(n) = n - 1
  BY ModSizeRange, NoWrap DEF Decremented, UInt16
<1>2. /\ AddCount(q, n) \in Queue
      /\ AddCount(q, n).curfreesize = n - 1
      /\ AddCount(q, n).start = q.start
      /\ AddCount(q, n).end = q.end
      /\ AddCount(q, n).buff = q.buff
  BY <1>1 DEF AddCount, Queue
<1>. QED  BY <1>2 DEF Agree, cq_peek, SlotOf

\* Taking the front byte: the others move up by one.
LEMMA DelAgrees ==
  ASSUME NEW q \in Queue, q.curfreesize \in 0 .. MODSIZE - 1, Agree(q, q.curfreesize)
  PROVE  /\ cq_del(q) \in Queue
         /\ cq_del(q).curfreesize = q.curfreesize + 1
         /\ Agree(cq_del(q), q.curfreesize + 1)
         /\ Front(q) = cq_peek(q, 0)
         /\ \A i \in 0 .. Used(q.curfreesize) - 2 : cq_peek(cq_del(q), i) = cq_peek(q, i + 1)
<1> DEFINE r == cq_del(q)
<1>1. /\ q.start \in Slots /\ q.end \in Slots /\ q.curfreesize \in UInt16
      /\ q.buff \in [Slots -> Byte]
  BY DEF Queue
<1>2. (q.curfreesize + 1) % UINT16_MOD = q.curfreesize + 1 /\ q.curfreesize + 1 \in UInt16
  BY ModSizeRange, NoWrap DEF UInt16
<1>3. Advance(q.start) \in Slots
  BY <1>1, ModSizeRange DEF Advance, Slots
<1>4. /\ r \in Queue
      /\ r.start = Advance(q.start)
      /\ r.end = q.end
      /\ r.curfreesize = q.curfreesize + 1
      /\ r.buff = q.buff
  BY <1>1, <1>2, <1>3 DEF cq_del, Queue
<1>. DEFINE free == q.curfreesize
<1>5. /\ free \in Nat /\ free < MODSIZE
      /\ q.start \in Nat /\ q.start <= MODSIZE /\ q.end \in Nat /\ q.end <= MODSIZE
      /\ r.start = IF q.start = MODSIZE THEN 0 ELSE q.start + 1
  BY <1>1, <1>4, ModSizeRange DEF Advance, Slots
<1>6. Agree(r, free + 1)
  <2>1. q.end = q.start + (MODSIZE - free) \/ q.end = q.start + (MODSIZE - free) - (MODSIZE + 1)
    BY ModSizeRange DEF Agree, Used
  <2>2. \/ q.end = r.start + (MODSIZE - (free + 1))
        \/ q.end = r.start + (MODSIZE - (free + 1)) - (MODSIZE + 1)
    BY <1>5, <2>1, ModSizeRange
  <2>3. free + 1 \in 0 .. MODSIZE
    BY <1>5, ModSizeRange
  <2>. QED  BY <1>4, <2>2, <2>3, ModSizeRange DEF Agree, Used
<1>7. Front(q) = cq_peek(q, 0)
  BY <1>1, ModSizeRange DEF Front, cq_peek, SlotOf, Slots
<1>8. \A i \in 0 .. Used(q.curfreesize) - 2 : cq_peek(r, i) = cq_peek(q, i + 1)
  <2> SUFFICES ASSUME NEW i \in 0 .. Used(q.curfreesize) - 2
               PROVE  SlotOf(r, i) = SlotOf(q, i + 1)
    BY <1>4 DEF cq_peek
  <2>1. i \in Nat /\ i + 2 <= MODSIZE - free
    BY <1>5, ModSizeRange DEF Used
  <2>. QED  BY <1>5, <2>1, ModSizeRange DEF SlotOf
<1>. QED  BY <1>4, <1>6, <1>7, <1>8

\* The two halves of cq_add together.  Only an empty queue gets a new front.
LEMMA AddAgrees ==
  ASSUME NEW q \in Queue, NEW ch \in Byte, q.curfreesize \in 1 .. MODSIZE, Agree(q, q.curfreesize)
  PROVE  /\ cq_add(q, ch) \in Queue
         /\ cq_add(q, ch).curfreesize = q.curfreesize - 1
         /\ Agree(cq_add(q, ch), q.curfreesize - 1)
         /\ Front(cq_add(q, ch)) = IF q.curfreesize = MODSIZE THEN ch ELSE Front(q)
<1> DEFINE free == q.curfreesize
           r == AddStore(q, ch)
<1>1. /\ r \in Queue
      /\ Agree(r, free - 1)
      /\ \A i \in 0 .. Used(free) - 1 : cq_peek(r, i) = cq_peek(q, i)
      /\ cq_peek(r, Used(free)) = ch
  BY AddStoreAgrees
<1>. HIDE DEF r
<1>2. /\ AddCount(r, free) \in Queue
      /\ AddCount(r, free).curfreesize = free - 1
      /\ Agree(AddCount(r, free), free - 1)
      /\ \A i \in Nat : cq_peek(AddCount(r, free), i) = cq_peek(r, i)
  BY <1>1, AddCountAgrees
<1>3. \A p \in Queue : Front(p) = cq_peek(p, 0)
  BY ModSizeRange DEF Front, cq_peek, SlotOf, Queue, Slots
<1>4. cq_add(q, ch) = AddCount(r, free)
  BY DEF cq_add, r
<1>5. CASE free = MODSIZE
  <2>1. Used(free) = 0
    BY <1>5, ModSizeRange DEF Used
  <2>. QED  BY <1>1, <1>2, <1>3, <1>4, <1>5, <2>1
<1>6. CASE free # MODSIZE
  <2>1. 0 \in 0 .. Used(free) - 1
    BY <1>6, ModSizeRange DEF Used
  <2>. QED  BY <1>1, <1>2, <1>3, <1>4, <1>6, <2>1
<1>. QED  BY <1>5, <1>6

\* Dropping bytes that are there.
LEMMA DiscardAgrees ==
  ASSUME NEW q \in Queue, q.curfreesize \in 0 .. MODSIZE, Agree(q, q.curfreesize),
         NEW size \in 0 .. Used(q.curfreesize)
  PROVE  /\ cq_discard(q, size) \in Queue
         /\ cq_discard(q, size).curfreesize = q.curfreesize + size
         /\ Agree(cq_discard(q, size), q.curfreesize + size)
<1> DEFINE free == q.curfreesize
           r == cq_discard(q, size)
           first == IF q.start + size >= BUFFSIZE THEN size - (BUFFSIZE - q.start) ELSE q.start + size
<1>1. /\ q.start \in Nat /\ q.start <= MODSIZE /\ q.end \in Nat /\ q.end <= MODSIZE
      /\ free \in Nat /\ size \in Nat /\ free + size <= MODSIZE
  BY ModSizeRange DEF Queue, Slots, Used
<1>2. /\ first \in Slots
      /\ free + size \in UInt16 /\ (free + size) % UINT16_MOD = free + size
  BY <1>1, ModSizeRange, NoWrap DEF Slots, UInt16
<1>3. /\ r \in Queue
      /\ r.start = first /\ r.end = q.end /\ r.curfreesize = free + size
  BY <1>2 DEF cq_discard, Queue
<1>4. q.end = q.start + (MODSIZE - free) \/ q.end = q.start + (MODSIZE - free) - (MODSIZE + 1)
  BY ModSizeRange DEF Agree, Used
<1>5. \/ q.end = first + (MODSIZE - (free + size))
      \/ q.end = first + (MODSIZE - (free + size)) - (MODSIZE + 1)
  BY <1>1, <1>4, ModSizeRange
<1>6. Agree(r, free + size)
  <2>. HIDE DEF first, r
  <2>. QED  BY <1>1, <1>3, <1>5, ModSizeRange DEF Agree, Used
<1>. QED  BY <1>3, <1>6

\* cq_reset empties it.
LEMMA ResetAgrees ==
  ASSUME NEW q \in Queue
  PROVE  /\ cq_reset(q) \in Queue
         /\ cq_reset(q).curfreesize = MODSIZE
         /\ Agree(cq_reset(q), MODSIZE)
<1>1. 0 \in Slots /\ MODSIZE \in UInt16
  BY ModSizeRange DEF Slots, UInt16
<1>2. /\ cq_reset(q) \in Queue
      /\ cq_reset(q).start = 0 /\ cq_reset(q).end = 0 /\ cq_reset(q).curfreesize = MODSIZE
  BY <1>1 DEF cq_reset, Queue
<1>. QED  BY <1>2, ModSizeRange DEF Agree, Used

\* cq_used_size counts the bytes.
LEMMA UsedSize ==
  ASSUME NEW q, q.curfreesize \in 0 .. MODSIZE
  PROVE  cq_used_size(q) = Used(q.curfreesize)
<1>1. BUFFSIZE - (q.curfreesize + 1) \in UInt16
  BY ModSizeRange DEF UInt16
<1>. QED  BY <1>1, NoWrap, ModSizeRange DEF cq_used_size, Used
=============================================================================

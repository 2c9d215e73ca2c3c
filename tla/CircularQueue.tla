--------------------------- MODULE CircularQueue ---------------------------
(***************************************************************************)
(* The byte ring buffer of cq.c, as operators on a queue record.  The same *)
(* structure carries the UART transmit queue tx_q, the receive queue rx_q  *)
(* and the debug port's queues.                                            *)
(*                                                                         *)
(* The code keeps no "number of elements": curfreesize counts the free     *)
(* slots, one slot of the buffer being left unused (modsize = buffsize-1), *)
(* so curfreesize = modsize means empty and curfreesize = 0 means full.    *)
(* Nothing in cq_add, cq_del or cq_discard looks at curfreesize before it  *)
(* changes it; the counters are uint16_t and wrap.                         *)
(***************************************************************************)
EXTENDS Integers

CONSTANTS
  BUFFSIZE,    \* slots of the buffer (260 in cq.h)
  UINT16_MOD   \* 2^16: the counters are uint16_t

\* buffsize is a uint16_t.  A queue of two slots (one byte) is left out: the
\* transmit interrupt can empty it between the last cq_add and the enabling of
\* UCTXIE, see TransmitterArmed in UartTx.
ASSUME BuffSizeAssumption ==
  /\ BUFFSIZE \in Nat /\ UINT16_MOD \in Nat
  /\ 3 <= BUFFSIZE /\ BUFFSIZE < UINT16_MOD

\* Only the identity of a byte matters here, not its value: the modules that
\* use the queue number the bytes.  0 is what static memory starts with.
Byte == Nat

MODSIZE == BUFFSIZE - 1

Slots == 0 .. MODSIZE

UInt16 == 0 .. UINT16_MOD - 1

\* The fields of struct cq that change after cq_init.
Queue == [start : Slots, end : Slots, curfreesize : UInt16,
          buff : [Slots -> Byte]]

cq_init == [start |-> 0, end |-> 0, curfreesize |-> MODSIZE,
            buff |-> [s \in Slots |-> 0]]

cq_is_empty(q) == q.curfreesize = MODSIZE

cq_is_full(q) == q.curfreesize = 0

cq_freesize(q) == q.curfreesize

\* buffsize - (curfreesize + 1) in uint16_t arithmetic.
cq_used_size(q) == (BUFFSIZE - (q.curfreesize + 1)) % UINT16_MOD

\* Mutant of Advance: the wrap to slot 0 is forgotten.
AdvanceUnwrapped(s) == s + 1

\* start++ (or end++) and the test that takes it back to slot 0.
Advance(s) == IF s + 1 = BUFFSIZE THEN 0 ELSE s + 1

(***************************************************************************)
(* cq_add is two operators, because an interrupt handler may find it half  *)
(* done: the byte is in and "end" has moved, and curfreesize has not been  *)
(* written back yet (the read-modify-write of curfreesize--).              *)
(***************************************************************************)
AddStore(q, ch) == [q EXCEPT !.buff[q.end] = ch, !.end = Advance(q.end)]

\* The value curfreesize-- writes back, from the value it loaded.
Decremented(loaded) == (loaded - 1) % UINT16_MOD

AddCount(q, loaded) == [q EXCEPT !.curfreesize = Decremented(loaded)]

\* Mutant of Front: start is advanced before the byte is read.
FrontAfterAdvance(q) == q.buff[Advance(q.start)]

\* The byte cq_del returns, and the queue it leaves.
Front(q) == q.buff[q.start]

cq_del(q) == [q EXCEPT !.start = Advance(q.start),
                       !.curfreesize = (q.curfreesize + 1) % UINT16_MOD]

cq_add(q, ch) == AddCount(AddStore(q, ch), q.curfreesize)

\* Drops size bytes at the front; the caller has to know they are there.
cq_discard(q, size) ==
  [q EXCEPT !.start = IF q.start + size >= BUFFSIZE THEN size - (BUFFSIZE - q.start)
                      ELSE q.start + size,
            !.curfreesize = (q.curfreesize + size) % UINT16_MOD]

\* Empty again; the bytes stay in the buffer.
cq_reset(q) == [q EXCEPT !.start = 0, !.end = 0, !.curfreesize = MODSIZE]

(***************************************************************************)
(* What the three counters have to agree on: the bytes between start and   *)
(* end are the ones curfreesize says are used.  "free" is curfreesize, or  *)
(* the value it is about to get when cq_add is half done.                  *)
(***************************************************************************)
Used(free) == MODSIZE - free

Agree(q, free) ==
  /\ free \in 0 .. MODSIZE
  /\ q.end = q.start + Used(free) \/ q.end = q.start + Used(free) - BUFFSIZE

\* The slot of the index-th byte in the queue, counting from 0 at start, and
\* that byte.
SlotOf(q, index) == IF q.start + index >= BUFFSIZE THEN index - (BUFFSIZE - q.start)
                    ELSE q.start + index

cq_peek(q, index) == q.buff[SlotOf(q, index)]
=============================================================================

----------------------------- MODULE ByteStream -----------------------------
(***************************************************************************)
(* What the transmit path promises its callers: a bounded first-in first-  *)
(* out stream.  Bytes are numbered in the order they are accepted; the     *)
(* wire carries 1, 2, 3, ... without a gap, a repetition or an exchange,   *)
(* and never more than Capacity accepted bytes are waiting.                *)
(***************************************************************************)
EXTENDS Naturals, Sequences

CONSTANT Capacity

VARIABLES
  accepted,   \* number of bytes taken from the callers so far
  delivered   \* the bytes handed to the wire, in order

vars == <<accepted, delivered>>

Init == accepted = 0 /\ delivered = << >>

Accept ==
  /\ accepted - Len(delivered) < Capacity
  /\ accepted' = accepted + 1
  /\ UNCHANGED delivered

Deliver ==
  /\ Len(delivered) < accepted
  /\ delivered' = Append(delivered, Len(delivered) + 1)
  /\ UNCHANGED accepted

Next == Accept \/ Deliver

\* Whatever was accepted is delivered in the end.
Spec == Init /\ [][Next]_vars /\ WF_vars(Deliver)
=============================================================================

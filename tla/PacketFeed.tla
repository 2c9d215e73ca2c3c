----------------------------- MODULE PacketFeed -----------------------------
(***************************************************************************)
(* What the receive path promises: the packets the controller offers are   *)
(* handled one by one, each once, in the order they were offered.          *)
(***************************************************************************)
EXTENDS Naturals, Sequences

VARIABLES
  offered,   \* the packets the controller began to send, in order
  handled    \* the packets the host acted on

vars == <<offered, handled>>

Init == offered = << >> /\ handled = << >>

Offer ==
  /\ Len(offered') = Len(offered) + 1
  /\ SubSeq(offered', 1, Len(offered)) = offered
  /\ UNCHANGED handled

Handle ==
  /\ Len(handled) < Len(offered)
  /\ handled' = Append(handled, offered[Len(handled) + 1])
  /\ UNCHANGED offered

Next == Offer \/ Handle

Spec == Init /\ [][Next]_vars /\ WF_vars(Handle)
=============================================================================

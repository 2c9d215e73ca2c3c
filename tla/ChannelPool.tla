---------------------------- MODULE ChannelPool -----------------------------
(* What the lists of list.c stand for in this program: every channel entry is *)
(* in exactly one list, the empty pool hands out its first entry to a slot,   *)
(* newest first, and nothing ever comes back.                                 *)
EXTENDS Naturals, Sequences

CONSTANTS Entries, Slots

VARIABLES free, owned

vars == <<free, owned>>

Init == /\ free = Entries
        /\ owned = [s \in Slots |-> <<>>]

Take(s) == /\ free # <<>>
           /\ owned' = [owned EXCEPT ![s] = <<Head(free)>> \o @]
           /\ free' = Tail(free)

Next == \E s \in Slots : Take(s)

Spec == Init /\ [][Next]_vars
=============================================================================

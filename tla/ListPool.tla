------------------------------ MODULE ListPool ------------------------------
(* The lists of list.c: doubly linked entries of a static array, threaded     *)
(* through list heads whose prev nobody uses.  Entry e is the e-th element of *)
(* the array.  The heads are the pool of unused channels (l2cap_empty_pool)   *)
(* and the channel list of each connection slot (conn_info[s].l2cap_conn_pool)*)
EXTENDS Naturals, Sequences

CONSTANTS L2CAP_CONN_POOL_SIZE, MAX_CONNECTIONS

ASSUME PoolAssumption == /\ L2CAP_CONN_POOL_SIZE \in Nat \ {0}
                         /\ MAX_CONNECTIONS \in Nat \ {0}

NULL == 0
Entry == 1..L2CAP_CONN_POOL_SIZE
Node == Entry \cup {NULL}
Slot == 1..MAX_CONNECTIONS
l2cap_empty_pool == 0
Pool == Slot \cup {l2cap_empty_pool}

Heap == [head : [Pool -> Node], next : [Entry -> Node], prev : [Entry -> Node]]

(* The array strung together in memory order behind the empty pool's head;    *)
(* hci_init has cleared the heads of the slots.                               *)
init_pool ==
    [head |-> [p \in Pool |-> IF p = l2cap_empty_pool THEN 1 ELSE NULL],
     next |-> [e \in Entry |-> IF e = L2CAP_CONN_POOL_SIZE THEN NULL ELSE e + 1],
     prev |-> [e \in Entry |-> e - 1]]

is_pool_empty(h, p) == h.head[p] = NULL

(* The head entry is unlinked; its own pointers keep their values.            *)
remove_from_pool_head(h, p) ==
    LET e == h.head[p]
        second == h.next[e]
    IN  [h EXCEPT !.head[p] = second,
                  !.prev = [n \in Entry |-> IF n = second THEN NULL ELSE @[n]]]

add_to_pool_head(h, p, e) ==
    [head |-> [h.head EXCEPT ![p] = e],
     next |-> [h.next EXCEPT ![e] = h.head[p]],
     prev |-> [n \in Entry |-> IF n = h.head[p] THEN e
                               ELSE IF n = e THEN NULL ELSE h.prev[n]]]

(* A list as the traversals of the code see it, cut off after as many entries *)
(* as there are: a list with a cycle would otherwise never end.               *)
Chain(h, p) ==
    LET from[k \in 0..L2CAP_CONN_POOL_SIZE] ==
            [n \in Node |-> IF n = NULL \/ k = 0 THEN <<>>
                                                ELSE <<n>> \o from[k - 1][h.next[n]]]
    IN  from[L2CAP_CONN_POOL_SIZE][h.head[p]]
=============================================================================

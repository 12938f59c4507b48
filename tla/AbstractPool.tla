---------------------------- MODULE AbstractPool ----------------------------
(***************************************************************************)
(* What the pool of connections of a node promises to those who know a     *)
(* connection by the number of its slot: a slot passes from one connection *)
(* to the next only through being empty, and no connection has two.        *)
(* Threads implements this with locks and single stores, two threads at a  *)
(* time; Exchange relies on it, where taking and leaving are parts of the  *)
(* callbacks of a node.                                                    *)
(***************************************************************************)
CONSTANTS Slots,    \* the numbers of slots
          Conns,    \* the connections
          None      \* an empty slot

VARIABLE holder     \* the connection in each slot

Init == holder = [k \in Slots |-> None]

(* A connection is put into an empty slot. *)
Take(k, c) ==
    /\ holder[k] = None /\ \A j \in Slots : holder[j] # c
    /\ holder' = [holder EXCEPT ![k] = c]

(* A connection is closed. *)
Leave(k) ==
    /\ holder[k] # None
    /\ holder' = [holder EXCEPT ![k] = None]

Next == \E k \in Slots : Leave(k) \/ \E c \in Conns : Take(k, c)

Spec == Init /\ [][Next]_holder
=============================================================================

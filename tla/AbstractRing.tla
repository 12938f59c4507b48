---------------------------- MODULE AbstractRing ----------------------------
(***************************************************************************)
(* What ring maintenance promises while nodes join and none fails: a       *)
(* network is members that each point at one member.  There is a member,   *)
(* such as the one that created the network, that nobody ever points past: *)
(* who comes in does not, and a member turns only to nearer ones.          *)
(* Messages, predecessors and lists are details of Ring, which implements  *)
(* this specification.                                                     *)
(***************************************************************************)
EXTENDS Pointers

VARIABLE next   \* the member each member points at; Nil for other nodes

Init == next = [n \in Nodes |-> Nil]

(* The first member points at itself. *)
Create(n) ==
    /\ \A m \in Nodes : next[m] = Nil
    /\ next' = [next EXCEPT ![n] = n]

(* A node comes in by pointing at a member no further than an anchor.      *)
Enter(n, s) ==
    /\ \E b \in Nodes : Anchor(next, b) /\ Gap(n, s) <= Gap(n, b)
    /\ next' = [next EXCEPT ![n] = s]

(* Member n turns to a nearer member.                                      *)
Turn(n, p) ==
    /\ Gap(n, p) < Gap(n, next[n])
    /\ next' = [next EXCEPT ![n] = p]

Next ==
    \/ \E n \in Nodes : Create(n)
    \/ \E n \in Nodes \ Pointing(next), s \in Pointing(next) : Enter(n, s)
    \/ \E n, p \in Pointing(next) : Turn(n, p)

Spec == Init /\ [][Next]_next
=============================================================================

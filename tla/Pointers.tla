------------------------------ MODULE Pointers ------------------------------
(***************************************************************************)
(* Nodes on the circle that each point at one node, as members of the      *)
(* network do at their first successor: what it is for all of them to be   *)
(* one network in order, and what keeps them one.  `next' gives the node   *)
(* each member points at, and Nil for the others.                          *)
(***************************************************************************)
EXTENDS NodeId

Pointing(next) == {n \in Nodes : next[n] # Nil}

Closed(next) == \A n \in Pointing(next) : next[n] \in Pointing(next)

-----------------------------------------------------------------------------
(***************************************************************************)
(* b is an anchor: no member points past it.                               *)
(***************************************************************************)
Anchor(next, b) ==
    /\ b \in Pointing(next)
    /\ \A n \in Pointing(next) : Gap(n, next[n]) <= Gap(n, b)

-----------------------------------------------------------------------------
(* The groups of members that point only at themselves. *)
Groups(next) ==
    {A \in SUBSET Pointing(next) : A # {} /\ \A n \in A : next[n] \in A}

(* The members that every such group holds: those one comes back to from   *)
(* wherever one starts.                                                    *)
Core(next) ==
    LET groups == Groups(next)
    IN  {n \in Pointing(next) : \A A \in groups : n \in A}

(* All groups have a member in common: there is one ring. *)
Connected(next) == Closed(next) /\ (Pointing(next) # {} => Core(next) # {})

(* No member of the core is skipped by another. *)
InOrder(next) ==
    LET core == Core(next)
    IN  \A a \in core : \A b \in core \ {a} : Gap(a, next[a]) <= Gap(a, b)
=============================================================================

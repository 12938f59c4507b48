------------------------------ MODULE MCLookup ------------------------------
(***************************************************************************)
(* An instance of Lookup for TLC.  Spec starts with any finger tables;     *)
(* here they are right, or right but for one entry that was never          *)
(* initialised: at node 0, for the identifier 4, something before it that  *)
(* draws the lookup of 4 to itself, or something behind it.                *)
(***************************************************************************)
EXTENDS Lookup

Settled == [n \in Nodes |-> [i \in Finger |-> Entry(n, Owner(Nodes, FingerId(n, i)))]]

MCInit ==
    /\ alive = Nodes
    /\ succ = [n \in Nodes |-> Owner(Nodes, IdPlus(n, 1))]
    /\ finger \in {Settled} \cup {[Settled EXCEPT ![0][3] = id] : id \in {2, 5}}
    /\ calls = {}
    /\ deaths = 0 /\ lapses = 0

MCFairSpec == MCInit /\ [][Next]_vars /\ Fairness
=============================================================================

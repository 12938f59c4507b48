------------------------------- MODULE MCRing -------------------------------
(***************************************************************************)
(* Instances of Ring for TLC.  Spec starts from no process at all; the     *)
(* specifications here start from a network that has settled, so that a    *)
(* small number of steps is spent on what happens after.                   *)
(***************************************************************************)
EXTENDS Ring

(* All nodes are up, and every list and predecessor is right. *)
SettledInit ==
    /\ status = [n \in Nodes |-> "up"]
    /\ successor = [n \in Nodes |-> TrueList(Nodes, n)]
    /\ predecessor = [n \in Nodes |-> CHOOSE m \in Nodes : Following(Nodes, m) = n]
    /\ calls = {}
    /\ overrun = {}
    /\ crashes = 0
    /\ timeouts = 0

SettledSpec == SettledInit /\ [][Next]_vars

SettledFairSpec == SettledSpec /\ Fairness

(* Nodes that die stay dead: none is created, none joins. *)
LastingSpec == SettledInit /\ [][Upkeep]_vars

LastingFairSpec == LastingSpec /\ Fairness

(***************************************************************************)
(* Nodes join and none fails.  The liveness checks are left out: as long   *)
(* as nobody fails they change nothing but the set of calls in flight.     *)
(***************************************************************************)
JoinedUpkeep ==
    \/ \E n \in Nodes : Joined(n)
    \/ Room /\ \E n \in Nodes : Stabilise(n)
    \/ Room /\ \E n \in Nodes : UpdateSuccs(n)
    \/ \E c \in calls : Handle(c)

(* Of the nodes 0, 3 and 7, the two beside the top of the circle. *)
Creators == Nodes \ {3}

JoiningNext ==
    \/ \E n \in Creators : Create(n)
    \/ \E n, b \in Nodes : Join(n, b)
    \/ JoinedUpkeep

JoiningSpec == Init /\ [][JoiningNext]_vars
=============================================================================

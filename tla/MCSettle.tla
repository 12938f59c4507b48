------------------------------ MODULE MCSettle ------------------------------
(***************************************************************************)
(* An instance of Ring for TLC in which nodes join, none fails, and the    *)
(* network comes to rest.  Two nodes start from nothing, or one node joins *)
(* a network of all others that has settled.                               *)
(***************************************************************************)
EXTENDS MCRing

VARIABLE present    \* the nodes that take part; it never changes

Start(S) ==
    /\ status = [n \in Nodes |-> IF n \in S THEN "up" ELSE "down"]
    /\ successor = [n \in Nodes |-> IF n \in S THEN TrueList(S, n) ELSE EmptyList]
    /\ predecessor = [n \in Nodes |->
                        IF n \in S THEN CHOOSE m \in S : Following(S, m) = n ELSE Nil]
    /\ calls = {}
    /\ overrun = {}
    /\ crashes = 0
    /\ timeouts = 0

SettleInit ==
    \/ present \in {S \in SUBSET Nodes : Cardinality(S) = 2} /\ Init
    \/ present = Nodes /\ \E n \in Nodes : Start(Nodes \ {n})

SettleNext ==
    /\ UNCHANGED present
    /\ \/ \E n \in present : Create(n)
       \/ \E n \in present, b \in Nodes : Join(n, b)
       \/ JoinedUpkeep

SettleSpec ==
    /\ SettleInit /\ [][SettleNext]_<<vars, present>>
    /\ \A n \in Nodes : Runs(n)
=============================================================================

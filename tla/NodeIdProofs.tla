---------------------------- MODULE NodeIdProofs ----------------------------
(***************************************************************************)
(* The facts about identifiers that the ring protocol rests on, for every  *)
(* size of the identifier circle.  Each unfolds to linear arithmetic over  *)
(* a handful of integers.                                                  *)
(***************************************************************************)
EXTENDS NodeId, WellFoundedInduction, TLAPS

(***************************************************************************)
(* The code finds an entry of an array by scanning it from the start       *)
(* (node_first_alive_succ), or the nearest of many nodes; the modules say  *)
(* "the least such that".  A non-empty set of naturals has a least one.    *)
(***************************************************************************)
LEMMA LeastNat ==
    ASSUME NEW S \in SUBSET Nat, S # {}
    PROVE  \E i \in S : \A j \in S : i <= j
<1>1. PICK i \in S : \A j \in S : ~(<<j, i>> \in OpToRel(<, Nat))
  BY NatLessThanWellFounded, WFMin
<1>2. \A j \in S : ~(j < i)
  BY <1>1 DEF OpToRel
<1> QED
  BY <1>2

(***************************************************************************)
(* IdPlus is the wrapping sum: it stays on the circle.                     *)
(***************************************************************************)
LEMMA IdPlusType ==
    ASSUME NEW n \in Id, NEW k \in Id
    PROVE  IdPlus(n, k) \in Id
BY IdSpaceAssumption DEF IdPlus, Id

(* The identifier after one's own is another identifier. *)
LEMMA IdPlusOneDiffers ==
    ASSUME NEW n \in Id
    PROVE  IdPlus(n, 1) # n
BY IdSpaceAssumption DEF IdPlus, Id

(* Distances are numbers smaller than the circle. *)
LEMMA DistType ==
    ASSUME NEW a \in Id, NEW b \in Id
    PROVE  Dist(a, b) \in Nat /\ Dist(a, b) < IdSpace
BY IdSpaceAssumption DEF Dist, Id

(***************************************************************************)
(* node_id_in_range, with its three cases, is the clockwise arc from its   *)
(* lower to its upper end.                                                 *)
(***************************************************************************)
THEOREM InRangeIsClockwiseArc ==
    ASSUME NEW id \in Id, NEW min \in Id, NEW max \in Id
    PROVE  RangeIsArc(id, min, max)
BY IdSpaceAssumption DEF RangeIsArc, node_id_in_range, Dist, Id

(***************************************************************************)
(* The range test of node_stabilize_sp_found accepts a candidate exactly   *)
(* when it is no further clockwise than the present first successor.       *)
(***************************************************************************)
THEOREM AdoptionOnlyCloser ==
    ASSUME NEW id \in Id, NEW self \in Id, NEW succ \in Id
    PROVE  AdoptionIsCloser(id, self, succ)
BY IdSpaceAssumption DEF AdoptionIsCloser, node_id_in_range, IdPlus, Gap, Dist, Id

(***************************************************************************)
(* A node hands a lookup on only to a node strictly nearer to the          *)
(* identifier looked up.                                                   *)
(***************************************************************************)
THEOREM HandingOnProgresses ==
    ASSUME NEW id \in Id, NEW self \in Id, NEW succ \in Id
    PROVE  HandingOnIsProgress(id, self, succ)
BY IdSpaceAssumption DEF HandingOnIsProgress, node_id_in_range, Dist, Id
=============================================================================

--------------------------- MODULE PointersProofs ---------------------------
(***************************************************************************)
(* Nodes of which one is an anchor, a node that nobody points past, are    *)
(* one network, and its ring is in order, for every set of nodes on every  *)
(* circle.  f gives the node each member points at, and b is the anchor.   *)
(***************************************************************************)
EXTENDS Pointers, NodeIdProofs

USE IdSpaceAssumption, NodesAssumption

Shape(f) == f \in [Nodes -> Nodes \cup {Nil}]

-----------------------------------------------------------------------------
(***************************************************************************)
(* Arcs.                                                                   *)
(***************************************************************************)

LEMMA GapType ==
    ASSUME NEW a \in Id, NEW b \in Id
    PROVE  Gap(a, b) \in Nat
BY DistType DEF Gap

(* Whoever points no further than b points at a node nearer to b.          *)
LEMMA NearerToAnchor ==
    ASSUME NEW n \in Id, NEW s \in Id, NEW b \in Id, n # b, Gap(n, s) <= Gap(n, b)
    PROVE  Dist(s, b) < Dist(n, b)
BY DEF Gap, Dist, Id

(***************************************************************************)
(* Let z lie between a and the node s that a points at.  Who points at z   *)
(* from outside, without passing b, comes before a on the way from b, and  *)
(* passes a.                                                               *)
(***************************************************************************)
LEMMA PassesTheSkipper ==
    ASSUME NEW a \in Id, NEW s \in Id, NEW z \in Id, NEW n \in Id, NEW b \in Id,
           z # a, Gap(a, z) < Gap(a, s), Gap(a, s) <= Gap(a, b),
           n # a, Gap(a, s) <= Gap(a, n), Gap(n, z) <= Gap(n, b)
    PROVE  Dist(b, n) < Dist(b, a) /\ Gap(n, a) < Gap(n, z)
BY DEF Gap, Dist, Id

-----------------------------------------------------------------------------
(***************************************************************************)
(* One network.                                                            *)
(***************************************************************************)

(***************************************************************************)
(* Of a group that points only at itself, the node nearest to the anchor   *)
(* would point at a nearer one, if it were not the anchor.                 *)
(***************************************************************************)
LEMMA GroupsHoldAnchor ==
    ASSUME NEW f, Shape(f), NEW b, Anchor(f, b), NEW A \in Groups(f)
    PROVE  b \in A
<1>1. A \in SUBSET Pointing(f) /\ A # {} /\ \A n \in A : f[n] \in A
  BY DEF Groups
<1>2. \A n \in A : n \in Id /\ f[n] \in Id /\ Gap(n, f[n]) <= Gap(n, b)
  BY <1>1 DEF Anchor, Pointing
<1>3. b \in Id
  BY DEF Anchor, Pointing
<1> DEFINE D == {Dist(n, b) : n \in A}
<1>4. D \in SUBSET Nat /\ D # {}
  BY <1>1, <1>2, <1>3, DistType
<1>5. PICK d \in D : \A e \in D : d <= e
  BY <1>4, LeastNat
<1>6. PICK n \in A : d = Dist(n, b)
  BY <1>5
<1>7. d <= Dist(f[n], b) /\ d \in Nat /\ Dist(f[n], b) \in Nat
  BY <1>1, <1>4, <1>5
<1>8. n # b => Dist(f[n], b) < d
  BY <1>2, <1>3, <1>6, NearerToAnchor
<1> QED
  BY <1>6, <1>7, <1>8

LEMMA AnchorInCore ==
    ASSUME NEW f, Shape(f), NEW b, Anchor(f, b)
    PROVE  b \in Core(f)
BY GroupsHoldAnchor DEF Core, Anchor

LEMMA AnchorConnects ==
    ASSUME NEW f, Shape(f), Closed(f), NEW b, Anchor(f, b)
    PROVE  Connected(f)
BY AnchorInCore DEF Connected

-----------------------------------------------------------------------------
(***************************************************************************)
(* In order.                                                               *)
(***************************************************************************)

(* The core is a group: it points only at itself.                          *)
LEMMA CoreIsGroup ==
    ASSUME NEW f, Shape(f), Closed(f), NEW b, Anchor(f, b)
    PROVE  Core(f) \in Groups(f)
<1>1. Core(f) # {} /\ Core(f) \in SUBSET Pointing(f)
  BY AnchorInCore DEF Core
<1>2. \A n \in Core(f) : f[n] \in Core(f)
  BY <1>1 DEF Core, Groups, Closed
<1> QED
  BY <1>1, <1>2 DEF Groups

(* The nodes of the core that point past another one. *)
Skippers(f) ==
    {a \in Core(f) : \E c \in Core(f) \ {a} : Gap(a, c) < Gap(a, f[a])}

(***************************************************************************)
(* If some nodes skip others, take the first of them after the anchor.     *)
(* Nobody else points at a node it skips: who did would skip it, and come  *)
(* before it.  So the rest of the core would do without the nodes it       *)
(* skips, and they would not be in the core.                               *)
(***************************************************************************)
LEMMA AnchorOrders ==
    ASSUME NEW f, Shape(f), Closed(f), NEW b, Anchor(f, b)
    PROVE  InOrder(f)
<1>1. \A n \in Core(f) : /\ n \in Pointing(f) /\ n \in Id /\ f[n] \in Core(f)
                         /\ f[n] \in Id /\ Gap(n, f[n]) <= Gap(n, b)
  BY CoreIsGroup DEF Core, Groups, Anchor, Pointing
<1>2. b \in Core(f) /\ b \in Id
  BY <1>1, AnchorInCore
<1>3. ASSUME Skippers(f) # {}
      PROVE  FALSE
  <2> DEFINE D == {Dist(b, a) : a \in Skippers(f)}
  <2>1. D \in SUBSET Nat /\ D # {}
    BY <1>1, <1>2, <1>3, DistType DEF Skippers
  <2>2. PICK d \in D : \A e \in D : d <= e
    BY <2>1, LeastNat
  <2>3. PICK a \in Skippers(f) : d = Dist(b, a)
    BY <2>2
  <2>4. \A n \in Skippers(f) : Dist(b, a) <= Dist(b, n)
    BY <2>2, <2>3
  <2> HIDE DEF D
  <2>5. PICK c \in Core(f) \ {a} : Gap(a, c) < Gap(a, f[a])
    BY DEF Skippers
  <2>6. a \in Core(f) /\ a \in Id /\ f[a] \in Id /\ Gap(a, f[a]) <= Gap(a, b)
    BY <1>1 DEF Skippers
  <2> DEFINE Between(z) == z # a /\ Gap(a, z) < Gap(a, f[a])
             Rest == {z \in Core(f) : ~Between(z)}
  <2>7. ASSUME NEW n \in Rest, f[n] \notin Rest
        PROVE  FALSE
    <3>1. /\ n \in Core(f) /\ n \in Id /\ f[n] \in Core(f) /\ f[n] \in Id
          /\ Gap(n, f[n]) <= Gap(n, b)
      BY <1>1
    <3>2. f[n] # a /\ Gap(a, f[n]) < Gap(a, f[a])
      BY <2>7, <3>1
    <3>3. n # a /\ Gap(a, f[a]) <= Gap(a, n)
      BY <2>6, <2>7, <3>1, <3>2, GapType
    <3>4. Dist(b, n) < Dist(b, a) /\ Gap(n, a) < Gap(n, f[n])
      BY <1>2, <2>6, <3>1, <3>2, <3>3, PassesTheSkipper
    <3>5. n \in Skippers(f)
      BY <2>6, <3>1, <3>3, <3>4 DEF Skippers
    <3> QED
      BY <1>2, <2>4, <2>6, <3>1, <3>4, <3>5, DistType
  <2>8. a \in Rest /\ Rest \in SUBSET Pointing(f)
    BY <1>1, <2>6
  <2>9. Rest \in Groups(f)
    BY <2>7, <2>8 DEF Groups
  <2>10. c \in Rest
    BY <2>9 DEF Core
  <2> QED
    BY <2>5, <2>10
<1>4. \A a, c \in Core(f) : c # a => ~(Gap(a, c) < Gap(a, f[a]))
  BY <1>3 DEF Skippers
<1>5. \A a, c \in Core(f) : Gap(a, c) \in Nat /\ Gap(a, f[a]) \in Nat
  BY <1>1, GapType
<1> QED
  BY <1>4, <1>5 DEF InOrder
=============================================================================

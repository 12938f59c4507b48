------------------------------- MODULE NodeId -------------------------------
(***************************************************************************)
(* The identifier arithmetic of src/src/node.c.  A node's identifier       *)
(* (hash_type, a uint32_t) is a point of a circle of IdSpace points; the   *)
(* code adds to identifiers with the wrap-around of unsigned arithmetic    *)
(* and asks whether a point lies on an arc.  All nodes share an IP address *)
(* here, so that a node_info is its identifier.                            *)
(***************************************************************************)
EXTENDS Integers

CONSTANTS
    IdSpace,    \* number of identifiers: 2^ID_BITS = 2^32 in the code
    Nodes,      \* the nodes, each named by its identifier
    Nil         \* the zeroed node_info: IP = 0 and port = 0

ASSUME IdSpaceAssumption == IdSpace \in Nat /\ IdSpace > 1

Id == 0 .. IdSpace - 1

ASSUME NodesAssumption == Nodes \subseteq Id /\ Nil \notin Nodes

-----------------------------------------------------------------------------
(***************************************************************************)
(* Wrong variants of the operators below, which the properties must tell   *)
(* from the code: a hash_type wider than ID_BITS, so that sums do not      *)
(* wrap; a range that leaves out its lower end; one that never wraps.      *)
(***************************************************************************)
IdPlusNoWrap(id, k) == id + k

InRangeMinExcluded(id, min, max) ==
    \/ max > min /\ id > min /\ id <= max
    \/ max < min /\ (id > min \/ id <= max)
    \/ max = min /\ id = max

InRangeNoWrap(id, min, max) == min <= id /\ id <= max

-----------------------------------------------------------------------------
(***************************************************************************)
(* id + k as a hash_type, for an offset k smaller than the circle: the sum *)
(* modulo 2^ID_BITS, written without % because k < IdSpace.                *)
(***************************************************************************)
IdPlus(id, k) == IF id + k < IdSpace THEN id + k ELSE id + k - IdSpace

(***************************************************************************)
(* node_id_in_range: is id on the arc from min clockwise to max, both ends *)
(* included?  min = max is the arc of that single point.                   *)
(***************************************************************************)
node_id_in_range(id, min, max) ==
    \/ max > min /\ id >= min /\ id <= max
    \/ max < min /\ (id >= min \/ id <= max)
    \/ max = min /\ id = max

-----------------------------------------------------------------------------
(***************************************************************************)
(* The reference the code is compared with: clockwise distance.            *)
(***************************************************************************)

(* Steps clockwise from a to b: 0 when they are the same point. *)
Dist(a, b) == IF b >= a THEN b - a ELSE b - a + IdSpace

(* Steps clockwise from a to the next occurrence of b: a whole turn when   *)
(* they are the same point, as for a node that is its own successor.       *)
Gap(a, b) == IF a = b THEN IdSpace ELSE Dist(a, b)

-----------------------------------------------------------------------------
(***************************************************************************)
(* What the callers of node_id_in_range rely on, for the three identifiers *)
(* of a test.                                                              *)
(***************************************************************************)

(* The three cases of node_id_in_range, wrap-around included, are one:     *)
(* walking clockwise from min, id comes no later than max.                 *)
RangeIsArc(id, min, max) ==
    node_id_in_range(id, min, max) <=> Dist(min, id) <= Dist(min, max)

(* node_stabilize_sp_found tests its candidate against the range that      *)
(* starts at its own identifier plus one: with the wrap of that sum at the *)
(* top of the circle and with a node that is its own successor, the test   *)
(* is exactly "the candidate is no further than the present successor".    *)
AdoptionIsCloser(id, self, succ) ==
    node_id_in_range(id, IdPlus(self, 1), succ) <=> Gap(self, id) <= Gap(self, succ)

(* node_find_successor hands a lookup on only for an identifier outside    *)
(* the arc to its successor; the successor is then strictly nearer to it.  *)
HandingOnIsProgress(id, self, succ) ==
    self # succ /\ ~node_id_in_range(id, self, succ)
        => Dist(succ, id) < Dist(self, id)
=============================================================================

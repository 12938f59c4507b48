----------------------------- MODULE MCExchange -----------------------------
(***************************************************************************)
(* Instances of Exchange for TLC: a small pool and a few remote ends,      *)
(* which are interchangeable.                                              *)
(***************************************************************************)
EXTENDS Exchange, TLC

(* For safety only: liveness is checked without symmetry. *)
PeerSymmetry == Permutations(Peers)
=============================================================================

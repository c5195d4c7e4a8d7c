------------------------------- MODULE MCFuse -------------------------------
(* Instances of Fuse for TLC. *)
EXTENDS Fuse

CONSTANTS i1, k1, k2
=============================================================================

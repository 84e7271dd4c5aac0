---------------------------- MODULE MCUserPages -----------------------------
(* UserPages for TLC: which id is the larger one matters, so no symmetry. *)
EXTENDS UserPages
=============================================================================

-------------------------- MODULE MCLiveAcceptance --------------------------
(* Instances of LiveAcceptance for TLC. *)
EXTENDS LiveAcceptance, TLC

Symmetry == Permutations(Operations)
=============================================================================

---------------------------- MODULE MCLandscape ----------------------------
(* Small instances of Landscape for TLC. *)
EXTENDS Landscape, TLC

Symmetry == Permutations(Session)

=============================================================================

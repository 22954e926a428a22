------------------------------- MODULE MCTypes -------------------------------
(* Instances of Types for TLC. *)
EXTENDS Types, TLC

Symmetry == Permutations(Array) \cup Permutations(Table \ {Object, All})
==============================================================================

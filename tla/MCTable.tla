------------------------------- MODULE MCTable -------------------------------
(***************************************************************************)
(* Instances of Table for TLC.                                             *)
(***************************************************************************)
EXTENDS Table, TLC

Symmetry == Permutations(Pointer) \cup Permutations(Key \ Pointer)
\* What was done last is for the comparison with KeyMap only.
View == <<tbl, hash>>
=============================================================================

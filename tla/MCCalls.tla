------------------------------ MODULE MCCalls ------------------------------
(* Instances of Calls for TLC. *)
EXTENDS Calls, TLC

\* Yielders are interchangeable.
Symmetry == Permutations(Yielder)
=============================================================================

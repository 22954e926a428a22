------------------------------ MODULE MCArrays ------------------------------
(***************************************************************************)
(* Instances of Arrays for TLC.                                            *)
(***************************************************************************)
EXTENDS ArraysInv, TLC

CONSTANTS low, high
MCRank == low :> 1 @@ high :> 2
Alike == Permutations(Names)
\* What a state is, apart from the call that led to it.
State == <<arrays, sorting>>
==============================================================================

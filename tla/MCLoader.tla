------------------------------ MODULE MCLoader ------------------------------
(* Instances of Loader for TLC. *)
EXTENDS LoaderInv, TLC
=============================================================================

------------------------------ MODULE MCStacks ------------------------------
(* Instances of Stacks for TLC. *)
EXTENDS StacksInv

\* What was done last is for the comparison with Frames only.
View == th
=============================================================================

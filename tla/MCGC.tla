-------------------------------- MODULE MCGC --------------------------------
(***************************************************************************)
(* Instances of GC for TLC.                                                *)
(***************************************************************************)
EXTENDS GCFullInv

\* All symbols but one have the same hash: chains collide however large the table is.
MCHash == CHOOSE h \in [Sym -> {0, 1}] :
            Cardinality(Sym) > 1 => \E s \in Sym : \A u \in Sym : h[u] = IF u = s THEN 1 ELSE 0
=============================================================================

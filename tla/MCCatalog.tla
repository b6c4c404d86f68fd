------------------------------ MODULE MCCatalog ------------------------------
(* Catalog on small instances. *)
EXTENDS Catalog, TLC

Symmetry == Permutations(Client)
=============================================================================

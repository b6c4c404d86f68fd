--------------------------- MODULE MCBuildService ---------------------------
(* BuildService on a small instance. *)
EXTENDS BuildServiceInv, TLC

(* Sound: no id is distinguished from another, and only safety is checked
   with it.                                                                 *)
Symmetry == Permutations(Product) \cup Permutations(Build)
                \cup Permutations(Name) \cup Permutations(Client)
=============================================================================

---------------------------- MODULE MCRepoPublish ----------------------------
(* RepoPublish on small instances. *)
EXTENDS RepoPublish, TLC

(* Builds, repo RPMs and requests are interchangeable: snapshots are ordered
   by their timestamps alone.                                               *)
Symmetry == Permutations(Build) \cup Permutations(Rpm) \cup Permutations(Handler)
=============================================================================

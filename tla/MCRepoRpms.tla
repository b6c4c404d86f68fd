----------------------------- MODULE MCRepoRpms -----------------------------
(* RepoRpms on small instances. *)
EXTENDS RepoRpms
=============================================================================

----------------------------- MODULE MCRepoTree -----------------------------
(* RepoTree for all pairs of the distro map and one that is not in it. *)
EXTENDS RepoTree

AllTargets == Known \cup {<<"debian", "12">>}
=============================================================================

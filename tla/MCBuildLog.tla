----------------------------- MODULE MCBuildLog -----------------------------
(* BuildLog on a small instance. *)
EXTENDS BuildLog
=============================================================================

---------------------------- MODULE MCGithubPass ----------------------------
(* GithubPass with the small values of the configurations MCGithubPass*.cfg. *)
EXTENDS GithubPass, TLC

=============================================================================

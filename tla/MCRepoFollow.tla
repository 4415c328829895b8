---------------------------- MODULE MCRepoFollow ----------------------------
(* RepoFollow with the small values of the configurations MCRepoFollow*.cfg. *)
EXTENDS RepoFollow, TLC

MCShort == [n \in Names |-> CASE n = "o/b" -> "b" [] n = "o/c" -> "c" [] OTHER -> "a"]
MCBorn == [r \in Repos |-> IF r = 1 THEN "o/a" ELSE "none"]
MCCalled == [l \in Lists |-> IF l = "inbox" THEN "b" ELSE "a"]

=============================================================================

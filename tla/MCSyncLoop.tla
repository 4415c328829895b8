----------------------------- MODULE MCSyncLoop -----------------------------
(* SyncLoop with the small values of the configurations MCSyncLoop*.cfg. *)
EXTENDS SyncLoop, TLC

MCFirst == [account |-> "a", interval |-> "long"]

=============================================================================

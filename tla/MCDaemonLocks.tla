---------------------------- MODULE MCDaemonLocks ----------------------------
(* DaemonLocks with the small values of the configurations MCDaemonLocks*.cfg. *)
EXTENDS DaemonLocks, TLC

Symmetry == Permutations(Threads)

=============================================================================

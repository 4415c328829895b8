----------------------------- MODULE MCTaskSync -----------------------------
(***************************************************************************)
(* TaskSync for TLC: the runs differ only in their constants.              *)
(***************************************************************************)
EXTENDS TaskSync
=============================================================================

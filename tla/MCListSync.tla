----------------------------- MODULE MCListSync -----------------------------
(***************************************************************************)
(* ListSync for TLC: the runs differ only in their constants.              *)
(***************************************************************************)
EXTENDS ListSync
=============================================================================

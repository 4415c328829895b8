------------------------------ MODULE MCWindow ------------------------------
(* Window with the small values of the configurations MCWindow*.cfg. *)
EXTENDS Window, TLC

=============================================================================

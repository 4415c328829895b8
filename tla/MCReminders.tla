---------------------------- MODULE MCReminders ----------------------------
(* Reminders with the small values of the configurations MCReminders*.cfg. *)
EXTENDS Reminders, TLC

=============================================================================

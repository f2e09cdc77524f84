----------------------------- MODULE MCRoutines -----------------------------
(* Routines for TLC. *)
EXTENDS Routines, TLC

=============================================================================

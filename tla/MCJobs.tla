------------------------------- MODULE MCJobs -------------------------------
(* Jobs for TLC. *)
EXTENDS Jobs, TLC

JobSymmetry == Permutations(Jobs)

=============================================================================

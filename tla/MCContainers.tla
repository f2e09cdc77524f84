---------------------------- MODULE MCContainers ----------------------------
(* Containers for TLC. *)
EXTENDS Containers, TLC

JobSymmetry == Permutations(Jobs)

=============================================================================

---------------------------- MODULE MCCheckpoint ----------------------------
(* Instances of Checkpoint for TLC. *)
EXTENDS Checkpoint, TLC

Symmetry == Permutations(Runs)

=============================================================================

------------------------------ MODULE MCLocal -------------------------------
(* Instances of LocalDb for TLC. *)
EXTENDS LocalDb, TLC

CONSTANTS p1, p2

MCProcs  == {p1, p2}
Symmetry == Permutations(MCProcs)
MCCalls  == {<<TRUE>>, <<FALSE>>}
MCElsewhere == {<<21>>, <<21, 22>>}
MCInputs == {<<2, 3, 1>>, <<1>>, <<2, 2>>, <<3, 0>>}
=============================================================================
